---- MODULE Spec2Model ----
(***************************************************************************)
(* Model of the collection-and-growth core of clonamari-damashi            *)
(* (src/src/gameLogic.ts and the composables that drive it).               *)
(*                                                                         *)
(* Numbers.  The program computes with JavaScript numbers.  The model      *)
(* computes with exact rationals <<n, d>> (d > 0, lowest terms), so that   *)
(* 0.05, 0.4, 1/newSize and the products of the scene-graph transforms are *)
(* represented without rounding.  A vector is a triple of rationals.       *)
(* Square roots are taken only of perfect squares (see Sqrt); an order     *)
(* comparison against a square root is made on the squares.                *)
(***************************************************************************)
EXTENDS Integers, Sequences, FiniteSets, TLC

(***************************************************************************)
(* Bounds of the model.                                                    *)
(***************************************************************************)
\* force magnitudes tried by the harness: k/2 for k in -MaxForce..MaxForce
MaxForce == 3
\* operations applied by a harness run
MaxCalls == 2
\* velocity components tried by the harness: integers in -MaxVel..MaxVel
MaxVel == 8
\* collectible x coordinates tried by the harness: 0 and k/5 for k in 6..MaxCoord
MaxCoord == 7
\* collectibles in a harness scenario
MaxItems == 2

(***************************************************************************)
(* Program constants.                                                      *)
(***************************************************************************)
MOVE_FORCE == 15
MAX_VELOCITY == 10
MAX_ANGULAR_VELOCITY == 5

(***************************************************************************)
(* Exact rational arithmetic (the model's stand-in for JS numbers).        *)
(***************************************************************************)
Abs(x) == IF x < 0 THEN -x ELSE x

RECURSIVE GCD(_, _)
GCD(a, b) == IF b = 0 THEN a ELSE GCD(b, a % b)

\* the rational n/d in lowest terms with a positive denominator (d # 0)
Q(n, d) ==
    LET g == GCD(Abs(n), Abs(d))
        s == IF d < 0 THEN -1 ELSE 1
    IN  <<(s * n) \div g, (s * d) \div g>>

N(n) == <<n, 1>>
Zero == N(0)
One == N(1)

QAdd(p, q) == Q(p[1] * q[2] + q[1] * p[2], p[2] * q[2])
QNeg(p) == <<-p[1], p[2]>>
QSub(p, q) == QAdd(p, QNeg(q))
QMul(p, q) == Q(p[1] * q[1], p[2] * q[2])
\* p / q, q # 0
QDiv(p, q) == Q(p[1] * q[2], p[2] * q[1])
QLess(p, q) == p[1] * q[2] < q[1] * p[2]
QLeq(p, q) == p[1] * q[2] <= q[1] * p[2]

\* vectors
Vec(x, y, z) == <<N(x), N(y), N(z)>>
VZero == Vec(0, 0, 0)
VAdd(u, v) == <<QAdd(u[1], v[1]), QAdd(u[2], v[2]), QAdd(u[3], v[3])>>
VSub(u, v) == <<QSub(u[1], v[1]), QSub(u[2], v[2]), QSub(u[3], v[3])>>
VScale(k, v) == <<QMul(k, v[1]), QMul(k, v[2]), QMul(k, v[3])>>
VDot(u, v) == QAdd(QAdd(QMul(u[1], v[1]), QMul(u[2], v[2])), QMul(u[3], v[3]))
VCross(u, v) ==
    <<QSub(QMul(u[2], v[3]), QMul(u[3], v[2])),
      QSub(QMul(u[3], v[1]), QMul(u[1], v[3])),
      QSub(QMul(u[1], v[2]), QMul(u[2], v[1]))>>
LengthSquared(v) == VDot(v, v)

\* exact square roots: defined on the rationals that have one
IsSquareInt(n) == \E r \in 0..n : r * r = n
SqrtInt(n) == CHOOSE r \in 0..n : r * r = n
IsSquare(q) == q[1] >= 0 /\ IsSquareInt(q[1]) /\ IsSquareInt(q[2])
Sqrt(q) == <<SqrtInt(q[1]), SqrtInt(q[2])>>

(***************************************************************************)
(* State.                                                                  *)
(***************************************************************************)
VARIABLES
    keys,          \* KeyState: [w, a, s, d -> BOOLEAN]
    katamariBody,  \* CANNON.Body of the player
    katamariMesh,  \* THREE.Mesh of the player
    katamariSize,  \* the current size (radius) of the player
    collectibles,  \* Collectible[]: the records (each with its body), in array order
    meshes,        \* the THREE.Mesh of each item, by mesh identity
    world,         \* world.bodies: the identities of the bodies in the world
    call,          \* the operation applied last, its arguments and result
    calls,         \* number of operations applied so far
    animationId,   \* useGameLoop: the pending animation frame, or Null
    collectedCount,\* useCollectibles: the number of onCollect notifications
    refs,          \* which of the refs world, katamariBody, katamariMesh, scene hold a
                   \* value, and which parameters useGameLoop was handed
    spawned,       \* number of collectibles created so far (the next fresh identity)
    log,           \* the stickItem invocations so far: [item, size], in order
    pending,       \* the animation frames requested and neither fired nor cancelled
    running        \* the tick bodies in progress: the phase each is about to run

vars == <<keys, katamariBody, katamariMesh, katamariSize, collectibles,
          meshes, world, call, calls, animationId, collectedCount, refs,
          spawned, log, pending, running>>

\* the state of the game session outside the core functions
loopVars == <<animationId, collectedCount, refs, spawned, log, pending, running>>

\* the part of the state a harness for one component leaves alone
sceneVars == <<katamariMesh, katamariSize, collectibles, meshes, world>>

KeyStates == [w : BOOLEAN, a : BOOLEAN, s : BOOLEAN, d : BOOLEAN]

NoCall == [op |-> "none"]

\* animationId.value === null
Null == 0

\* every ref holds its object, and useGameLoop was handed the mesh ref
\* (meshParam) and the functions renderFn and updateCameraFn (callbacks)
AllRefs == [world |-> TRUE, katamariBody |-> TRUE, katamariMesh |-> TRUE,
            scene |-> TRUE, meshParam |-> TRUE, callbacks |-> TRUE]

\* a harness that calls one core function directly: no loop is running
NoLoop ==
    /\ animationId = Null
    /\ collectedCount = 0
    /\ refs = AllRefs
    /\ spawned = 0
    /\ log = <<>>
    /\ pending = {}
    /\ running = <<>>

NoKeys == [w |-> FALSE, a |-> FALSE, s |-> FALSE, d |-> FALSE]

\* an absent optional number (collectedAtSize?: number)
Undefined == <<0, 0>>

\* the identity of the player's body in world.bodies
KatamariBodyId == 0

\* new THREE.Mesh(): at the origin, unit scale, no parent, no children
NewMesh ==
    [position |-> VZero, quaternion |-> 0, scale |-> <<One, One, One>>,
     children |-> <<>>]

\* a scene without collectibles
EmptyScene ==
    /\ katamariMesh = NewMesh
    /\ katamariSize = One
    /\ collectibles = <<>>
    /\ meshes = <<>>
    /\ world = {KatamariBodyId}

\* new CANNON.Body({ shape: new CANNON.Sphere(radius), position })
NewBody(position, radius) ==
    [position |-> position,
     velocity |-> VZero,
     angularVelocity |-> VZero,
     force |-> VZero,
     torque |-> VZero,
     quaternion |-> 0,
     radius |-> radius,
     boundingRadius |-> radius]

(***************************************************************************)
(* Input Force Mapper.                                                     *)
(***************************************************************************)
\* CANNON.Body.applyForce(force, relativePoint): accumulates the force and the
\* torque relativePoint x force on the body
applyForce(body, force, relativePoint) ==
    [body EXCEPT !.force = VAdd(body.force, force),
                 !.torque = VAdd(body.torque, VCross(relativePoint, force))]

\* a plausible slip: the S branch assigns instead of accumulating
applyInputForce_assign(k, body, moveForce) ==
    LET z1 == IF k.w THEN QSub(Zero, moveForce) ELSE Zero
        z2 == IF k.s THEN moveForce ELSE z1
        x1 == IF k.a THEN QSub(Zero, moveForce) ELSE Zero
        x2 == IF k.d THEN QAdd(x1, moveForce) ELSE x1
        force == <<x2, Zero, z2>>
    IN  [ret |-> force, body |-> applyForce(body, force, body.position)]

\* applyInputForce(keys, katamariBody, moveForce): the returned vector and the
\* body after the call
applyInputForce(k, body, moveForce) ==
    LET z1 == IF k.w THEN QSub(Zero, moveForce) ELSE Zero
        z2 == IF k.s THEN QAdd(z1, moveForce) ELSE z1
        x1 == IF k.a THEN QSub(Zero, moveForce) ELSE Zero
        x2 == IF k.d THEN QAdd(x1, moveForce) ELSE x1
        force == <<x2, Zero, z2>>
    IN  [ret |-> force, body |-> applyForce(body, force, body.position)]

(***************************************************************************)
(* SpecForce: applyInputForce applied to every KeyState and a range of     *)
(* force magnitudes.                                                       *)
(***************************************************************************)
ForceInputs == {Q(n, 2) : n \in -MaxForce..MaxForce} \cup {N(MOVE_FORCE)}

BodyPositions == {Vec(0, 0, 0), Vec(0, 5, 0), Vec(1, 0, 2)}

InitForce ==
    /\ keys \in KeyStates
    /\ katamariBody \in {NewBody(p, One) : p \in BodyPositions}
    /\ EmptyScene
    /\ call = NoCall
    /\ calls = 0
    /\ NoLoop

CallApplyInputForce ==
    /\ calls < MaxCalls
    /\ \E f \in ForceInputs :
          LET r == applyInputForce(keys, katamariBody, f)
          IN  /\ katamariBody' = r.body
              /\ call' = [op |-> "applyInputForce", keys |-> keys,
                          moveForce |-> f, ret |-> r.ret]
    /\ calls' = calls + 1
    /\ UNCHANGED <<keys, sceneVars, loopVars>>

NextForce == CallApplyInputForce

SpecForce == InitForce /\ [][NextForce]_vars

\* a KeyState flag read as 0/1
Flag(b) == IF b THEN 1 ELSE 0

\* C1: the force returned by applyInputForce has x = (d - a) * F,
\* z = (s - w) * F and y = 0 for every KeyState and every magnitude F; with
\* both opposing keys of an axis held that component is exactly 0.
C1_ForceFormula ==
    call.op = "applyInputForce" =>
        LET k == call.keys
            F == call.moveForce
        IN  /\ call.ret[1] = QMul(N(Flag(k.d) - Flag(k.a)), F)
            /\ call.ret[3] = QMul(N(Flag(k.s) - Flag(k.w)), F)
            /\ call.ret[2] = Zero
            /\ (k.w /\ k.s) => call.ret[3] = Zero
            /\ (k.a /\ k.d) => call.ret[1] = Zero

\* C1 witness: W and S held together with D, at the default magnitude
C1_Witness ==
    /\ call.op = "applyInputForce"
    /\ call.keys = [w |-> TRUE, a |-> FALSE, s |-> TRUE, d |-> TRUE]
    /\ call.moveForce = N(MOVE_FORCE)
    /\ call.ret = Vec(MOVE_FORCE, 0, 0)

(***************************************************************************)
(* Velocity Limiter.                                                       *)
(***************************************************************************)
\* CANNON.Vec3.length()
length(v) == Sqrt(LengthSquared(v))

\* CANNON.Vec3.normalize(): in place; the zero vector stays zero
normalize(v) ==
    LET n == length(v)
    IN  IF QLess(Zero, n) THEN VScale(QDiv(One, n), v) ELSE VZero

\* CANNON.Vec3.scale(scalar, target)
scale(v, scalar) == VScale(scalar, v)

\* a plausible slip: the boundary is included in the clamped range
capLinearVelocity_geq(body, maxVelocity) ==
    IF QLeq(maxVelocity, length(body.velocity))
    THEN [ret |-> TRUE,
          body |-> [body EXCEPT !.velocity =
                        scale(normalize(body.velocity), maxVelocity)]]
    ELSE [ret |-> FALSE, body |-> body]

\* a plausible slip: the vector is scaled without being normalized first
capLinearVelocity_nonorm(body, maxVelocity) ==
    IF QLess(maxVelocity, length(body.velocity))
    THEN [ret |-> TRUE,
          body |-> [body EXCEPT !.velocity = scale(body.velocity, maxVelocity)]]
    ELSE [ret |-> FALSE, body |-> body]

\* capLinearVelocity(body, maxVelocity): the returned flag and the body after
capLinearVelocity(body, maxVelocity) ==
    IF QLess(maxVelocity, length(body.velocity))
    THEN [ret |-> TRUE,
          body |-> [body EXCEPT !.velocity =
                        scale(normalize(body.velocity), maxVelocity)]]
    ELSE [ret |-> FALSE, body |-> body]

\* capAngularVelocity(body, maxAngularVelocity)
capAngularVelocity(body, maxAngularVelocity) ==
    IF QLess(maxAngularVelocity, length(body.angularVelocity))
    THEN [ret |-> TRUE,
          body |-> [body EXCEPT !.angularVelocity =
                        scale(normalize(body.angularVelocity), maxAngularVelocity)]]
    ELSE [ret |-> FALSE, body |-> body]

(***************************************************************************)
(* SpecCap: the two limiters applied to bodies whose velocity ranges over   *)
(* the integer vectors of integer length (the angular velocity is the same *)
(* vector with its components shifted), at the default caps and at the     *)
(* custom caps of the test suite.                                          *)
(***************************************************************************)
VelocityInputs ==
    {v \in {Vec(x, y, z) : x, y, z \in -MaxVel..MaxVel} : IsSquare(LengthSquared(v))}

\* v with its components moved one place on
Shift(v) == <<v[3], v[1], v[2]>>

LinearCaps == {N(MAX_VELOCITY), N(5)}
AngularCaps == {N(MAX_ANGULAR_VELOCITY), N(3)}

InitCap ==
    /\ keys = NoKeys
    /\ EmptyScene
    /\ \E v \in VelocityInputs :
          katamariBody = [NewBody(VZero, One) EXCEPT
                             !.velocity = v, !.angularVelocity = Shift(v)]
    /\ call = NoCall
    /\ calls = 0
    /\ NoLoop

CallCapLinearVelocity ==
    /\ calls < MaxCalls
    /\ \E m \in LinearCaps :
          LET r == capLinearVelocity(katamariBody, m)
          IN  /\ katamariBody' = r.body
              /\ call' = [op |-> "capLinearVelocity", max |-> m,
                          before |-> katamariBody, ret |-> r.ret]
    /\ calls' = calls + 1
    /\ UNCHANGED <<keys, sceneVars, loopVars>>

CallCapAngularVelocity ==
    /\ calls < MaxCalls
    /\ \E m \in AngularCaps :
          LET r == capAngularVelocity(katamariBody, m)
          IN  /\ katamariBody' = r.body
              /\ call' = [op |-> "capAngularVelocity", max |-> m,
                          before |-> katamariBody, ret |-> r.ret]
    /\ calls' = calls + 1
    /\ UNCHANGED <<keys, sceneVars, loopVars>>

NextCap == CallCapLinearVelocity \/ CallCapAngularVelocity

SpecCap == InitCap /\ [][NextCap]_vars

\* the vector a limiter call works on, before and after the call
CapBefore ==
    IF call.op = "capLinearVelocity"
    THEN call.before.velocity ELSE call.before.angularVelocity
CapAfter ==
    IF call.op = "capLinearVelocity"
    THEN katamariBody.velocity ELSE katamariBody.angularVelocity
IsCapCall == call.op \in {"capLinearVelocity", "capAngularVelocity"}

\* |v| <= m and |v| = m, stated on the squares (m > 0)
WithinCap(v, m) == QLeq(LengthSquared(v), QMul(m, m))
AtCap(v, m) == LengthSquared(v) = QMul(m, m)

Sign(q) == IF q[1] > 0 THEN 1 ELSE IF q[1] < 0 THEN -1 ELSE 0

\* C8: a limiter called on a vector whose magnitude is at most the cap, the
\* cap itself included, returns false and leaves the whole body unchanged.
C8_NoClampAtOrBelowCap ==
    (IsCapCall /\ WithinCap(CapBefore, call.max)) =>
        /\ call.ret = FALSE
        /\ CapAfter = CapBefore
        /\ katamariBody = call.before

\* C8 witness: linear velocity (6, 8, 0), of magnitude exactly 10, at the
\* default cap
C8_Witness ==
    /\ call.op = "capLinearVelocity"
    /\ call.max = N(MAX_VELOCITY)
    /\ call.before.velocity = Vec(6, 8, 0)
    /\ call.ret = FALSE
    /\ katamariBody.velocity = Vec(6, 8, 0)

\* C9: a limiter called on a vector whose magnitude exceeds the cap returns
\* true and leaves the vector with magnitude equal to the cap and the
\* direction it had: parallel to the old vector, every component with its
\* old sign; the other vector of the body is untouched.
C9_ClampToCapKeepsDirection ==
    (IsCapCall /\ ~WithinCap(CapBefore, call.max)) =>
        /\ call.ret = TRUE
        /\ AtCap(CapAfter, call.max)
        /\ VCross(CapBefore, CapAfter) = VZero
        /\ \A i \in 1..3 : Sign(CapAfter[i]) = Sign(CapBefore[i])
        /\ call.op = "capLinearVelocity" =>
              katamariBody.angularVelocity = call.before.angularVelocity
        /\ call.op = "capAngularVelocity" =>
              katamariBody.velocity = call.before.velocity

\* C9 witness: angular velocity (2, -3, 6), of magnitude 7, clamped at the
\* custom cap 3 to (6/7, -9/7, 18/7)
C9_Witness ==
    /\ call.op = "capAngularVelocity"
    /\ call.max = N(3)
    /\ call.before.angularVelocity = Vec(2, -3, 6)
    /\ call.before.velocity = Vec(-3, 6, 2)
    /\ call.ret = TRUE
    /\ katamariBody.angularVelocity = <<Q(6, 7), Q(-9, 7), Q(18, 7)>>

(***************************************************************************)
(* Collision Detector.                                                     *)
(***************************************************************************)
\* the collision radius every spawned collectible gets (0.4)
ITEM_RADIUS == Q(2, 5)

\* CANNON.Vec3.distanceTo(p), squared
distanceSquared(p, q) == LengthSquared(VSub(q, p))

\* dist < bound for dist = sqrt(d2) >= 0, decided on the squares
SqrtLess(d2, bound) == QLess(Zero, bound) /\ QLess(d2, QMul(bound, bound))
SqrtLeq(d2, bound) == QLeq(Zero, bound) /\ QLeq(d2, QMul(bound, bound))

\* a plausible slip: touching spheres count as colliding
isColliding_leq(body, collectible, size) ==
    SqrtLeq(distanceSquared(body.position, collectible.body.position),
            QAdd(size, collectible.radius))

\* a plausible slip: the radius of the item is left out of the reach
isColliding_noradius(body, collectible, size) ==
    SqrtLess(distanceSquared(body.position, collectible.body.position), size)

\* isColliding(katamariBody, collectible, katamariSize)
isColliding(body, collectible, size) ==
    SqrtLess(distanceSquared(body.position, collectible.body.position),
             QAdd(size, collectible.radius))

\* the indices i of 1..Len(seq), in order, whose element satisfies Test
RECURSIVE FilterIndices(_, _, _)
FilterIndices(seq, Test(_), i) ==
    IF i > Len(seq) THEN <<>>
    ELSE (IF Test(seq[i]) THEN <<i>> ELSE <<>>) \o FilterIndices(seq, Test, i + 1)

\* a plausible slip: the query marks what it returns
findCollidingCollectibles_marking(body, cols, size) ==
    LET Hit(item) == ~item.collected /\ isColliding(body, item, size)
    IN  [ret |-> FilterIndices(cols, Hit, 1),
         body |-> body,
         collectibles |-> [i \in DOMAIN cols |->
                              IF Hit(cols[i])
                              THEN [cols[i] EXCEPT !.collected = TRUE]
                              ELSE cols[i]]]

\* the filter tests the distance only
findCollidingCollectibles_nofilter(body, cols, size) ==
    LET Hit(item) == isColliding(body, item, size)
    IN  [ret |-> FilterIndices(cols, Hit, 1),
         body |-> body,
         collectibles |-> cols]

\* findCollidingCollectibles(katamariBody, collectibles, katamariSize): the
\* returned items (as their positions in the array, in order) and the body
\* and records after the call
findCollidingCollectibles(body, cols, size) ==
    LET Hit(item) == ~item.collected /\ isColliding(body, item, size)
    IN  [ret |-> FilterIndices(cols, Hit, 1),
         body |-> body,
         collectibles |-> cols]

(***************************************************************************)
(* SpecCollide: the detector applied to scenarios of up to MaxItems        *)
(* collectibles placed on a grid around the player, free or collected.     *)
(***************************************************************************)
\* item positions on the ground plane: x is 0 or 1.2 .. MaxCoord/5 in fifths,
\* z is 0 or 1.6
ItemPositions ==
    {<<Q(x, 5), Zero, Q(z, 5)>> : x \in {0} \cup 6..MaxCoord, z \in {0, 8}}

\* the player at the origin or 1.2 above it
PlayerPositions == {VZero, <<Zero, Q(6, 5), Zero>>}

\* sizes the detector is asked about: the initial size 1 and the size 1.6
\* reached after twelve collections
SizeInputs == {One, Q(8, 5)}

\* a record as spawnCollectibles pushes it (free) or as stickItem leaves it
ItemRecord(i, p, done) ==
    [mesh |-> i,
     body |-> [id |-> i, position |-> p],
     collected |-> done,
     radius |-> ITEM_RADIUS,
     collectedAtSize |-> IF done THEN One ELSE Undefined]

\* the mesh of item i: in the scene where it was spawned, or on the katamari
ItemMesh(p, done) ==
    [parent |-> IF done THEN "katamari" ELSE "scene",
     position |-> p, scale |-> <<One, One, One>>]

Scenarios(n) == [1..n -> ItemPositions \X BOOLEAN]

InitCollide ==
    /\ keys = NoKeys
    /\ katamariBody \in {NewBody(p, One) : p \in PlayerPositions}
    /\ katamariSize \in SizeInputs
    /\ \E n \in 0..MaxItems : \E sc \in Scenarios(n) :
          /\ collectibles = [i \in 1..n |-> ItemRecord(i, sc[i][1], sc[i][2])]
          /\ meshes = [i \in 1..n |-> ItemMesh(sc[i][1], sc[i][2])]
          /\ world = {KatamariBodyId} \cup {i \in 1..n : ~sc[i][2]}
          /\ katamariMesh = [NewMesh EXCEPT
                                !.children = FilterIndices(sc, LAMBDA e : e[2], 1)]
    /\ call = NoCall
    /\ calls = 0
    /\ NoLoop

CallFindCollidingCollectibles ==
    /\ calls < MaxCalls
    /\ LET r == findCollidingCollectibles(katamariBody, collectibles, katamariSize)
       IN  /\ katamariBody' = r.body
           /\ collectibles' = r.collectibles
           /\ call' = [op |-> "findCollidingCollectibles",
                       size |-> katamariSize, ret |-> r.ret,
                       before |-> [katamariBody |-> katamariBody,
                                   collectibles |-> collectibles,
                                   meshes |-> meshes, world |-> world],
                       repeated |-> call.op = "findCollidingCollectibles",
                       previous |-> IF call.op = "findCollidingCollectibles"
                                    THEN call.ret ELSE <<>>]
    /\ calls' = calls + 1
    /\ UNCHANGED <<keys, katamariMesh, katamariSize, meshes, world, loopVars>>

NextCollide == CallFindCollidingCollectibles

SpecCollide == InitCollide /\ [][NextCollide]_vars

\* the items a call returned, as a set
Returned == {call.ret[k] : k \in DOMAIN call.ret}

\* C2: findCollidingCollectibles returns exactly the uncollected items whose
\* distance to the player is strictly less than katamariSize + radius, each
\* once and in array order: an item at distance exactly the radius sum is not
\* returned, an uncollected item at distance 0 is, a collected item never is.
C2_ExactlyStrictOverlaps ==
    call.op = "findCollidingCollectibles" =>
        LET returned == Returned
        IN  /\ returned \subseteq DOMAIN collectibles
            /\ \A j, k \in DOMAIN call.ret : j < k => call.ret[j] < call.ret[k]
            /\ \A i \in DOMAIN collectibles :
                  LET item == collectibles[i]
                      d2 == distanceSquared(katamariBody.position, item.body.position)
                      sum == QAdd(call.size, item.radius)
                      sum2 == QMul(sum, sum)
                  IN  /\ i \in returned <=> (~item.collected /\ QLess(d2, sum2))
                      /\ d2 = sum2 => i \notin returned
                      /\ (d2 = Zero /\ ~item.collected) => i \in returned
                      /\ item.collected => i \notin returned

\* C2 witness: size 1.6 with the player at the origin; the first item is free
\* at (1.2, 0, 1.6), at distance 2 = 1.6 + 0.4, and is not returned; the
\* second is free at distance 0 and is returned
C2_Witness ==
    /\ call.op = "findCollidingCollectibles"
    /\ call.size = Q(8, 5)
    /\ katamariBody.position = VZero
    /\ Len(collectibles) = 2
    /\ collectibles[1].body.position = <<Q(6, 5), Zero, Q(8, 5)>>
    /\ ~collectibles[1].collected
    /\ collectibles[2].body.position = VZero
    /\ ~collectibles[2].collected
    /\ call.ret = <<2>>

\* C10: findCollidingCollectibles is a pure query: the player body, every
\* collectible record (collected, collectedAtSize, body position), the meshes
\* and the world's body set are what they were before the call, and a call
\* repeated on the unchanged world returns the same items in the same order.
C10_PureQuery ==
    call.op = "findCollidingCollectibles" =>
        /\ katamariBody = call.before.katamariBody
        /\ collectibles = call.before.collectibles
        /\ meshes = call.before.meshes
        /\ world = call.before.world
        /\ call.repeated => call.ret = call.previous

\* C10 witness: a second call returns the same two items, in array order
C10_Witness ==
    /\ call.op = "findCollidingCollectibles"
    /\ call.repeated
    /\ call.previous = <<1, 2>>
    /\ call.ret = <<1, 2>>

(***************************************************************************)
(* Scene graph (THREE.Object3D).  The katamari mesh hangs directly under   *)
(* the scene, whose transform is the identity; its orientation ranges over *)
(* the quarter turns about the vertical axis, which have exact matrices.   *)
(***************************************************************************)
\* u and v multiplied, and divided, component by component
VTimes(u, v) == <<QMul(u[1], v[1]), QMul(u[2], v[2]), QMul(u[3], v[3])>>
VOver(u, v) == <<QDiv(u[1], v[1]), QDiv(u[2], v[2]), QDiv(u[3], v[3])>>

\* Vector3.setScalar / Vector3.set(t, t, t)
Uniform(t) == <<t, t, t>>

\* v turned by q quarter turns about the y axis
Rotate(q, v) ==
    CASE q = 0 -> v
      [] q = 1 -> <<v[3], v[2], QNeg(v[1])>>
      [] q = 2 -> <<QNeg(v[1]), v[2], QNeg(v[3])>>
      [] q = 3 -> <<QNeg(v[3]), v[2], v[1]>>

\* Object3D.localToWorld / worldToLocal of the katamari mesh: matrixWorld is
\* position * rotation * scale, and worldToLocal applies its inverse
localToWorld(kMesh, v) ==
    VAdd(kMesh.position, Rotate(kMesh.quaternion, VTimes(kMesh.scale, v)))
worldToLocal(kMesh, w) ==
    VOver(Rotate((4 - kMesh.quaternion) % 4, VSub(w, kMesh.position)), kMesh.scale)

\* Object3D.getWorldPosition of mesh m
getWorldPosition(kMesh, ms, m) ==
    IF ms[m].parent = "katamari"
    THEN localToWorld(kMesh, ms[m].position)
    ELSE ms[m].position

\* seq without the entries equal to m
Without(seq, m) == SelectSeq(seq, LAMBDA e : e # m)

\* the scene state the engines work on
Scene ==
    [collectibles |-> collectibles, meshes |-> meshes, world |-> world,
     katamariMesh |-> katamariMesh, katamariBody |-> katamariBody]

\* katamariMesh.add(mesh): the mesh leaves its parent and becomes the last
\* child of the katamari mesh
add(st, m) ==
    [st EXCEPT !.katamariMesh.children = Append(Without(@, m), m),
               !.meshes[m].parent = "katamari"]

(***************************************************************************)
(* Attachment Engine.                                                      *)
(***************************************************************************)
\* a plausible slip: the body stays in the world
stickItem_keepbody(st, i, size) ==
    LET m == st.collectibles[i].mesh
        worldPos == getWorldPosition(st.katamariMesh, st.meshes, m)
        added == add(st, m)
    IN  [added EXCEPT
            !.collectibles[i].collected = TRUE,
            !.meshes[m].position = worldToLocal(added.katamariMesh, worldPos),
            !.collectibles[i].collectedAtSize = size]

\* a plausible slip: the world position is assigned as the local position
stickItem_nolocal(st, i, size) ==
    LET m == st.collectibles[i].mesh
        worldPos == getWorldPosition(st.katamariMesh, st.meshes, m)
        added == add(st, m)
    IN  [added EXCEPT
            !.collectibles[i].collected = TRUE,
            !.world = @ \ {st.collectibles[i].body.id},
            !.meshes[m].position = worldPos,
            !.collectibles[i].collectedAtSize = size]

\* the collected flag is left alone
stickItem_noflag(st, i, size) ==
    LET m == st.collectibles[i].mesh
        worldPos == getWorldPosition(st.katamariMesh, st.meshes, m)
        added == add(st, m)
    IN  [added EXCEPT
            !.world = @ \ {st.collectibles[i].body.id},
            !.meshes[m].position = worldToLocal(added.katamariMesh, worldPos),
            !.collectibles[i].collectedAtSize = size]

\* stickItem(item, katamariMesh, world, katamariSize), item being
\* st.collectibles[i] and katamariMesh, world those of st: the scene after
stickItem(st, i, size) ==
    LET m == st.collectibles[i].mesh
        worldPos == getWorldPosition(st.katamariMesh, st.meshes, m)
        added == add(st, m)
    IN  [added EXCEPT
            !.collectibles[i].collected = TRUE,
            !.world = @ \ {st.collectibles[i].body.id},
            !.meshes[m].position = worldToLocal(added.katamariMesh, worldPos),
            !.collectibles[i].collectedAtSize = size]

(***************************************************************************)
(* SpecStick: stickItem applied, up to MaxCalls times, to free items       *)
(* around a katamari mesh at several positions, orientations and scales.   *)
(***************************************************************************)
MeshPositions == {Vec(0, 1, 0), <<One, Zero, Q(5, 2)>>}
MeshScales == {One, Q(3, 2)}
StickPositions == {Vec(2, 1, 0), <<N(-1), Q(1, 2), N(3)>>}

InitStick ==
    /\ keys = NoKeys
    /\ katamariBody = NewBody(VZero, One)
    /\ katamariSize \in SizeInputs
    /\ \E p \in MeshPositions, q \in 0..3, k \in MeshScales :
          katamariMesh = [NewMesh EXCEPT !.position = p, !.quaternion = q,
                                         !.scale = Uniform(k)]
    /\ \E n \in 1..MaxItems : \E at \in [1..n -> StickPositions] :
          /\ collectibles = [i \in 1..n |-> ItemRecord(i, at[i], FALSE)]
          /\ meshes = [i \in 1..n |-> ItemMesh(at[i], FALSE)]
          /\ world = {KatamariBodyId} \cup 1..n
    /\ call = NoCall
    /\ calls = 0
    /\ NoLoop

CallStickItem ==
    /\ calls < MaxCalls
    /\ \E i \in DOMAIN collectibles :
          LET st == stickItem(Scene, i, katamariSize)
          IN  /\ collectibles' = st.collectibles
              /\ meshes' = st.meshes
              /\ world' = st.world
              /\ katamariMesh' = st.katamariMesh
              /\ call' = [op |-> "stickItem", item |-> i, size |-> katamariSize,
                          worldPos |-> getWorldPosition(katamariMesh, meshes,
                                                        collectibles[i].mesh),
                          before |-> Scene]
    /\ calls' = calls + 1
    /\ UNCHANGED <<keys, katamariBody, katamariSize, loopVars>>

NextStick == CallStickItem

SpecStick == InitStick /\ [][NextStick]_vars

\* the children of the katamari mesh, as a set
Children == {katamariMesh.children[k] : k \in DOMAIN katamariMesh.children}

\* C3: after stickItem(item, katamariMesh, world, size) the item is collected,
\* its body is not in the world's body set, its mesh is a child of the
\* katamari mesh, and collectedAtSize is the size passed to the call.
C3_StickPostconditions ==
    call.op = "stickItem" =>
        LET item == collectibles[call.item]
        IN  /\ item.collected = TRUE
            /\ item.body.id \notin world
            /\ item.mesh \in Children
            /\ meshes[item.mesh].parent = "katamari"
            /\ item.collectedAtSize = call.size

\* C3 witness: a free item, its body in the world, stuck at size 1.6 to a
\* mesh of scale 1
C3_Witness ==
    /\ call.op = "stickItem"
    /\ ~call.before.collectibles[call.item].collected
    /\ call.before.collectibles[call.item].body.id \in call.before.world
    /\ call.size = Q(8, 5)
    /\ katamariMesh.scale = Uniform(One)
    /\ collectibles[call.item].collectedAtSize = Q(8, 5)

\* C4: stickItem preserves the item's world-space position across the
\* reparenting, for every position, orientation and scale of the katamari
\* mesh and every item position.
C4_StickKeepsWorldPosition ==
    call.op = "stickItem" =>
        getWorldPosition(katamariMesh, meshes, collectibles[call.item].mesh)
            = call.worldPos

\* C4 witness: a free item at (2, 1, 0) stuck to a mesh at (1, 0, 2.5), turned
\* a quarter turn and scaled 1.5: its local position becomes (5/3, 2/3, 2/3)
C4_Witness ==
    /\ call.op = "stickItem"
    /\ ~call.before.collectibles[call.item].collected
    /\ call.worldPos = Vec(2, 1, 0)
    /\ katamariMesh.position = <<One, Zero, Q(5, 2)>>
    /\ katamariMesh.quaternion = 1
    /\ katamariMesh.scale = Uniform(Q(3, 2))
    /\ meshes[collectibles[call.item].mesh].position = <<Q(5, 3), Q(2, 3), Q(2, 3)>>

(***************************************************************************)
(* Growth Engine.                                                          *)
(***************************************************************************)
\* the growth per collected item (0.05)
GROW_AMOUNT == Q(1, 20)

\* JavaScript truthiness of an optional number: undefined and 0 are falsy
Truthy(x) == x # Undefined /\ x # Zero

\* collectibles.find((col) => col.mesh === child): the position of the first
\* record whose mesh is child, 0 when there is none
find(cols, child) ==
    IF \E i \in DOMAIN cols : cols[i].mesh = child
    THEN CHOOSE i \in DOMAIN cols :
            /\ cols[i].mesh = child
            /\ \A j \in DOMAIN cols : cols[j].mesh = child => i <= j
    ELSE 0

\* the meshes after katamariMesh.children.forEach(...) with the given target
\* scale for the children that pass the test of the loop body
CounterScaled(st, Target(_)) ==
    LET kids == {st.katamariMesh.children[k] : k \in DOMAIN st.katamariMesh.children}
        Hit(m) == /\ m \in kids
                  /\ find(st.collectibles, m) # 0
                  /\ Truthy(st.collectibles[find(st.collectibles, m)].collectedAtSize)
    IN  [m \in DOMAIN st.meshes |->
            IF Hit(m)
            THEN [st.meshes[m] EXCEPT !.scale = Uniform(Target(m))]
            ELSE st.meshes[m]]

\* a plausible slip: the physics shape keeps its old radius
growKatamari_noradius(amount, currentSize, st) ==
    LET newSize == QAdd(currentSize, amount)
        Target(m) == QDiv(One, newSize)
    IN  [ret |-> newSize,
         st |-> [st EXCEPT !.katamariMesh.scale = Uniform(newSize),
                           !.meshes = CounterScaled(st, Target)]]

\* a plausible slip: the counter-scale is taken relative to the size at which
\* the item was collected
growKatamari_baseline(amount, currentSize, st) ==
    LET newSize == QAdd(currentSize, amount)
        Target(m) ==
            QDiv(st.collectibles[find(st.collectibles, m)].collectedAtSize, newSize)
    IN  [ret |-> newSize,
         st |-> [st EXCEPT !.katamariMesh.scale = Uniform(newSize),
                           !.meshes = CounterScaled(st, Target),
                           !.katamariBody.radius = newSize,
                           !.katamariBody.boundingRadius = newSize]]

\* a plausible slip: every child is counter-scaled, matched or not
growKatamari_allchildren(amount, currentSize, st) ==
    LET newSize == QAdd(currentSize, amount)
        kids == {st.katamariMesh.children[k] : k \in DOMAIN st.katamariMesh.children}
    IN  [ret |-> newSize,
         st |-> [st EXCEPT !.katamariMesh.scale = Uniform(newSize),
                           !.meshes = [m \in DOMAIN st.meshes |->
                               IF m \in kids
                               THEN [st.meshes[m] EXCEPT
                                        !.scale = Uniform(QDiv(One, newSize))]
                               ELSE st.meshes[m]],
                           !.katamariBody.radius = newSize,
                           !.katamariBody.boundingRadius = newSize]]

\* the growth stamps the attached records with the new size
growKatamari_restamp(amount, currentSize, st) ==
    LET newSize == QAdd(currentSize, amount)
        Target(m) == QDiv(One, newSize)
    IN  [ret |-> newSize,
         st |-> [st EXCEPT !.katamariMesh.scale = Uniform(newSize),
                           !.meshes = CounterScaled(st, Target),
                           !.katamariBody.radius = newSize,
                           !.katamariBody.boundingRadius = newSize,
                           !.collectibles = [k \in DOMAIN @ |->
                               IF Truthy(@[k].collectedAtSize)
                               THEN [@[k] EXCEPT !.collectedAtSize = newSize]
                               ELSE @[k]]]]

\* growKatamari(amount, currentSize, katamariMesh, katamariBody, collectibles),
\* the last three being those of st: the returned size and the scene after
growKatamari(amount, currentSize, st) ==
    LET newSize == QAdd(currentSize, amount)
        Target(m) == QDiv(One, newSize)
    IN  [ret |-> newSize,
         st |-> [st EXCEPT !.katamariMesh.scale = Uniform(newSize),
                           !.meshes = CounterScaled(st, Target),
                           !.katamariBody.radius = newSize,
                           !.katamariBody.boundingRadius = newSize]]

(***************************************************************************)
(* SpecGrow: growKatamari applied, up to MaxCalls times in a chain, to a   *)
(* katamari mesh whose children are items collected at different sizes,    *)
(* items attached without a collectedAtSize and a mesh without a record.   *)
(***************************************************************************)
AmountInputs == {GROW_AMOUNT, Q(1, 2), One}
StartSizes == {One, Q(6, 5)}

\* how an item starts: free in the scene, attached after a collection at
\* size 1 or 1.2, or attached by hand without a collectedAtSize
ItemKinds == {"free", "at1", "at1.2", "unsized"}

KindRecord(i, kind) ==
    [mesh |-> i,
     body |-> [id |-> i, position |-> Vec(2, 1, 0)],
     collected |-> kind \in {"at1", "at1.2"},
     radius |-> ITEM_RADIUS,
     collectedAtSize |-> CASE kind = "at1" -> One
                           [] kind = "at1.2" -> Q(6, 5)
                           [] OTHER -> Undefined]

KindMesh(kind) ==
    [parent |-> IF kind = "free" THEN "scene" ELSE "katamari",
     position |-> Vec(2, 1, 0), scale |-> Uniform(One)]

\* the identity of the mesh that has no collectible record
ExtraMesh == 0

InitGrow ==
    /\ keys = NoKeys
    /\ katamariBody = NewBody(VZero, One)
    /\ katamariSize \in StartSizes
    /\ \E n \in 0..MaxItems : \E kinds \in [1..n -> ItemKinds] : \E extra \in BOOLEAN :
          /\ collectibles = [i \in 1..n |-> KindRecord(i, kinds[i])]
          /\ meshes = [m \in (IF extra THEN {ExtraMesh} ELSE {}) \cup 1..n |->
                          IF m = ExtraMesh THEN KindMesh("unsized")
                          ELSE KindMesh(kinds[m])]
          /\ world = {KatamariBodyId} \cup {i \in 1..n : kinds[i] = "free"}
          /\ katamariMesh = [NewMesh EXCEPT !.children =
                (IF extra THEN <<ExtraMesh>> ELSE <<>>)
                    \o FilterIndices(kinds, LAMBDA k : k # "free", 1)]
    /\ call = NoCall
    /\ calls = 0
    /\ NoLoop

CallGrowKatamari ==
    /\ calls < MaxCalls
    /\ \E amount \in AmountInputs :
          LET r == growKatamari(amount, katamariSize, Scene)
          IN  /\ katamariSize' = r.ret
              /\ katamariMesh' = r.st.katamariMesh
              /\ katamariBody' = r.st.katamariBody
              /\ meshes' = r.st.meshes
              /\ collectibles' = r.st.collectibles
              /\ world' = r.st.world
              /\ call' = [op |-> "growKatamari", amount |-> amount,
                          currentSize |-> katamariSize, ret |-> r.ret,
                          before |-> Scene,
                          start |-> IF call.op = "growKatamari"
                                    THEN call.start ELSE katamariSize,
                          amounts |-> IF call.op = "growKatamari"
                                      THEN Append(call.amounts, amount)
                                      ELSE <<amount>>]
    /\ calls' = calls + 1
    /\ UNCHANGED <<keys, loopVars>>

NextGrow == CallGrowKatamari

SpecGrow == InitGrow /\ [][NextGrow]_vars

\* start + amounts[1] + ... + amounts[n], added left to right
RECURSIVE Accumulated(_, _, _)
Accumulated(start, amounts, n) ==
    IF n = 0 THEN start
    ELSE QAdd(Accumulated(start, amounts, n - 1), amounts[n])

\* C5: growKatamari returns currentSize + amount and sets the katamari mesh
\* scale on all three axes and the physics sphere radius to that value; a
\* chain of calls, each fed the result of the one before, ends with the
\* first size plus all the amounts in the three places.
C5_GrowSetsSizeScaleRadius ==
    call.op = "growKatamari" =>
        /\ call.ret = QAdd(call.currentSize, call.amount)
        /\ katamariMesh.scale = <<call.ret, call.ret, call.ret>>
        /\ katamariBody.radius = call.ret
        /\ call.ret = Accumulated(call.start, call.amounts, Len(call.amounts))
        /\ katamariSize = call.ret

\* C5 witness: 1 grown by 0.05 and then by 0.5 gives 1.55 in the three places
C5_Witness ==
    /\ call.op = "growKatamari"
    /\ call.start = One
    /\ call.amounts = <<GROW_AMOUNT, Q(1, 2)>>
    /\ call.ret = Q(31, 20)
    /\ katamariMesh.scale = Uniform(Q(31, 20))
    /\ katamariBody.radius = Q(31, 20)

\* C6: after growth to radius R every child of the katamari mesh that belongs
\* to a collected item with a recorded collectedAtSize has local scale 1/R on
\* all axes, whatever the recorded value.
C6_CounterScaleIsInverseRadius ==
    call.op = "growKatamari" =>
        \A i \in DOMAIN collectibles :
            (/\ collectibles[i].mesh \in Children
             /\ collectibles[i].collected
             /\ collectibles[i].collectedAtSize # Undefined)
            => LET t == QDiv(One, call.ret)
               IN  meshes[collectibles[i].mesh].scale = <<t, t, t>>

\* C6 witness: two children, collected at sizes 1 and 1.2, both at scale 1/2
\* after growth from 1 to 2
C6_Witness ==
    /\ call.op = "growKatamari"
    /\ call.ret = N(2)
    /\ Len(collectibles) = 2
    /\ collectibles[1].collectedAtSize = One
    /\ collectibles[2].collectedAtSize = Q(6, 5)
    /\ {1, 2} \subseteq Children
    /\ meshes[1].scale = Uniform(Q(1, 2))
    /\ meshes[2].scale = Uniform(Q(1, 2))

\* C7: growKatamari leaves unchanged the scale of every child of the katamari
\* mesh that has no matching record or whose record has no collectedAtSize,
\* and the scale, collected flag and collectedAtSize of every collectible
\* that is not a child of the katamari mesh.
C7_GrowLeavesOthersAlone ==
    call.op = "growKatamari" =>
        LET was == call.before
        IN  /\ \A m \in Children :
                  (\/ \A i \in DOMAIN was.collectibles : was.collectibles[i].mesh # m
                   \/ \E i \in DOMAIN was.collectibles :
                         /\ was.collectibles[i].mesh = m
                         /\ was.collectibles[i].collectedAtSize = Undefined)
                  => meshes[m].scale = was.meshes[m].scale
            /\ \A i \in DOMAIN was.collectibles :
                  was.collectibles[i].mesh \notin Children =>
                      /\ meshes[was.collectibles[i].mesh].scale
                            = was.meshes[was.collectibles[i].mesh].scale
                      /\ collectibles[i].collected = was.collectibles[i].collected
                      /\ collectibles[i].collectedAtSize
                            = was.collectibles[i].collectedAtSize

\* C7 witness: after growth from 1 to 1.5 the mesh without a record and the
\* child without a collectedAtSize are still at scale 1, and a free item is
\* as it was
C7_Witness ==
    /\ call.op = "growKatamari"
    /\ call.ret = Q(3, 2)
    /\ katamariMesh.scale = Uniform(Q(3, 2))
    /\ katamariMesh.children = <<ExtraMesh, 1>>
    /\ meshes[ExtraMesh].scale = Uniform(One)
    /\ Len(collectibles) = 2
    /\ collectibles[1].collectedAtSize = Undefined
    /\ meshes[1].scale = Uniform(One)
    /\ ~collectibles[2].collected
    /\ collectibles[2].collectedAtSize = Undefined
    /\ meshes[2].parent = "scene"
    /\ meshes[2].scale = Uniform(One)

(***************************************************************************)
(* The game session: useCollectibles, usePhysics, useThreeJs and           *)
(* useGameLoop.  useGameLoop is modelled with the refs its parameter list  *)
(* declares (world, katamariBody, katamariMesh, collectibles,              *)
(* katamariSize) and with onCollect = incrementCollectedCount.             *)
(***************************************************************************)
\* the identity of the ground body in world.bodies
GroundBodyId == -1

\* spawnCollectibles(50): the number of items of one spawn, scaled to the model
SpawnCount == MaxItems

\* collectibles created in one session: the spawn of onMounted and one respawn
MaxSpawned == 2 * SpawnCount

\* no ref holds an object yet
NoRefs == [world |-> FALSE, katamariBody |-> FALSE, katamariMesh |-> FALSE,
           scene |-> FALSE, meshParam |-> TRUE, callbacks |-> TRUE]

\* the state the composables work on, as one record
Game ==
    [collectibles |-> collectibles, meshes |-> meshes, world |-> world,
     katamariMesh |-> katamariMesh, katamariBody |-> katamariBody,
     katamariSize |-> katamariSize, keys |-> keys,
     animationId |-> animationId, collectedCount |-> collectedCount,
     refs |-> refs, spawned |-> spawned, log |-> log, pending |-> pending]

\* the state after an operation that ended in g
Install(g) ==
    /\ collectibles' = g.collectibles
    /\ meshes' = g.meshes
    /\ world' = g.world
    /\ katamariMesh' = g.katamariMesh
    /\ katamariBody' = g.katamariBody
    /\ katamariSize' = g.katamariSize
    /\ keys' = g.keys
    /\ animationId' = g.animationId
    /\ collectedCount' = g.collectedCount
    /\ refs' = g.refs
    /\ spawned' = g.spawned
    /\ log' = g.log
    /\ pending' = g.pending

\* usePhysics.initPhysics(): the world, the player's body (Sphere(1) at
\* (0, 5, 0)) and the ground
initPhysics(g) ==
    [g EXCEPT !.world = {KatamariBodyId, GroundBodyId},
              !.katamariBody = NewBody(Vec(0, 5, 0), One),
              !.refs.world = TRUE,
              !.refs.katamariBody = TRUE]

\* useThreeJs.initThreeJS(): the scene and the player's mesh (radius 1, y = 1)
initThreeJS(g) ==
    [g EXCEPT !.katamariMesh = [NewMesh EXCEPT !.position = Vec(0, 1, 0)],
              !.refs.scene = TRUE,
              !.refs.katamariMesh = TRUE]

\* the places Math.random() puts an item (y = 0.5): one within contact range
\* of a player of radius 1 at NearSpot (distance 1.2), one just outside it
\* (distance 1.4425, within range from radius 1.05 on)
ItemSpots == {<<Q(24, 25), Q(1, 2), Zero>>, <<Q(-5, 4), Q(1, 2), Zero>>}

\* useCollectibles.spawnCollectibles(count), the random positions being at
spawnCollectibles(g, count, at) ==
    IF ~g.refs.scene \/ ~g.refs.world THEN g
    ELSE LET fresh == (g.spawned + 1)..(g.spawned + count)
         IN  [g EXCEPT
                 !.meshes = [m \in DOMAIN g.meshes \cup fresh |->
                                IF m \in fresh
                                THEN ItemMesh(at[m - g.spawned], FALSE)
                                ELSE g.meshes[m]],
                 !.world = @ \cup fresh,
                 !.collectibles = @ \o [k \in 1..count |->
                                ItemRecord(g.spawned + k, at[k], FALSE)],
                 !.spawned = @ + count]

\* the meshes of the records that are children of the scene:
\* scene.remove(item.mesh) removes a mesh only from the scene's own children
SceneChildren(g) ==
    {g.collectibles[k].mesh : k \in DOMAIN g.collectibles}
        \cap {m \in DOMAIN g.meshes : g.meshes[m].parent = "scene"}

\* the respawn resets the size as well
clearCollectibles_reset(g) ==
    IF ~g.refs.scene \/ ~g.refs.world THEN g
    ELSE [g EXCEPT
             !.meshes = [m \in DOMAIN g.meshes \ SceneChildren(g) |-> g.meshes[m]],
             !.world = @ \ {g.collectibles[k].body.id : k \in DOMAIN g.collectibles},
             !.collectibles = <<>>,
             !.katamariSize = One]

\* the respawn recycles the records: it marks them uncollected again
clearCollectibles_recycle(g) ==
    IF ~g.refs.scene \/ ~g.refs.world THEN g
    ELSE [g EXCEPT
             !.collectibles = [k \in DOMAIN @ |-> [@[k] EXCEPT !.collected = FALSE]]]

\* useCollectibles.clearCollectibles()
clearCollectibles(g) ==
    IF ~g.refs.scene \/ ~g.refs.world THEN g
    ELSE [g EXCEPT
             !.meshes = [m \in DOMAIN g.meshes \ SceneChildren(g) |-> g.meshes[m]],
             !.world = @ \ {g.collectibles[k].body.id : k \in DOMAIN g.collectibles},
             !.collectibles = <<>>]

\* useCollectibles.respawnCollectibles()
\* a plausible slip: the new items are spawned without clearing the old
respawnCollectibles_noclear(g, at) == spawnCollectibles(g, SpawnCount, at)

respawnCollectibles(g, at) ==
    spawnCollectibles(clearCollectibles(g), SpawnCount, at)

\* what world.fixedStep() can leave the player's body with
NearSpot == <<Zero, Q(61, 50), Zero>>
StepOutcomes ==
    {[position |-> NearSpot, velocity |-> VZero, angularVelocity |-> VZero,
      quaternion |-> 0],
     [position |-> Vec(20, 1, 20), velocity |-> Vec(12, 0, 5),
      angularVelocity |-> Vec(0, 6, 8), quaternion |-> 1]}

\* world.fixedStep(): the static items stay, the player's body moves and the
\* forces applied since the last step are cleared
fixedStep(g, o) ==
    [g EXCEPT !.katamariBody =
        [@ EXCEPT !.position = o.position, !.velocity = o.velocity,
                  !.angularVelocity = o.angularVelocity,
                  !.quaternion = o.quaternion,
                  !.force = VZero, !.torque = VZero]]

\* the growth uses the size the attachment was not yet given: grow, then stick
collect_growfirst(g, i) ==
    LET grown == growKatamari(GROW_AMOUNT, g.katamariSize, g)
        stuck == stickItem(grown.st, i, grown.ret)
    IN  [stuck EXCEPT
            !.katamariSize = grown.ret,
            !.collectedCount = @ + 1,
            !.log = Append(@, [item |-> g.collectibles[i].body.id,
                               size |-> grown.ret])]

\* a plausible slip: onCollect is not called
collect_nocount(g, i) ==
    LET stuck == stickItem(g, i, g.katamariSize)
        grown == growKatamari(GROW_AMOUNT, stuck.katamariSize, stuck)
    IN  [grown.st EXCEPT
            !.katamariSize = grown.ret,
            !.log = Append(@, [item |-> g.collectibles[i].body.id,
                               size |-> g.katamariSize])]

\* the size growKatamari returns is not written back to katamariSize
collect_nowrite(g, i) ==
    LET stuck == stickItem(g, i, g.katamariSize)
        grown == growKatamari(GROW_AMOUNT, stuck.katamariSize, stuck)
    IN  [grown.st EXCEPT
            !.collectedCount = @ + 1,
            !.log = Append(@, [item |-> g.collectibles[i].body.id,
                               size |-> g.katamariSize])]

\* the callback of collidingItems.forEach: stickItem, growKatamari,
\* katamariSize.value = newSize, onCollect()
collect(g, i) ==
    LET stuck == stickItem(g, i, g.katamariSize)
        grown == growKatamari(GROW_AMOUNT, stuck.katamariSize, stuck)
    IN  [grown.st EXCEPT
            !.katamariSize = grown.ret,
            !.collectedCount = @ + 1,
            !.log = Append(@, [item |-> g.collectibles[i].body.id,
                               size |-> g.katamariSize])]

\* collidingItems.forEach(...): items[k], items[k + 1], ... in turn
RECURSIVE forEachColliding(_, _, _)
forEachColliding(g, items, k) ==
    IF k > Len(items) THEN g
    ELSE forEachColliding(collect(g, items[k]), items, k + 1)

\* only the first contact of a tick is handled
checkCollisions_firstonly(g) ==
    IF ~g.refs.katamariBody \/ ~g.refs.katamariMesh \/ ~g.refs.world THEN g
    ELSE LET found == findCollidingCollectibles(g.katamariBody, g.collectibles,
                                                g.katamariSize)
             collidingItems == IF Len(found.ret) > 1 THEN <<found.ret[1]>>
                               ELSE found.ret
         IN  forEachColliding([g EXCEPT !.katamariBody = found.body,
                                        !.collectibles = found.collectibles],
                              collidingItems, 1)

\* a plausible slip: the guard tests the body only
checkCollisions_bodyonly(g) ==
    IF ~g.refs.katamariBody THEN g
    ELSE LET found == findCollidingCollectibles(g.katamariBody, g.collectibles,
                                                g.katamariSize)
             collidingItems == found.ret
         IN  forEachColliding([g EXCEPT !.katamariBody = found.body,
                                        !.collectibles = found.collectibles],
                              collidingItems, 1)

\* useGameLoop.checkCollisions()
checkCollisions(g) ==
    IF ~g.refs.katamariBody \/ ~g.refs.katamariMesh \/ ~g.refs.world THEN g
    ELSE LET found == findCollidingCollectibles(g.katamariBody, g.collectibles,
                                                g.katamariSize)
             collidingItems == found.ret
         IN  forEachColliding([g EXCEPT !.katamariBody = found.body,
                                        !.collectibles = found.collectibles],
                              collidingItems, 1)

\* a plausible slip: only the linear limiter runs
moveBody_linearonly(g) ==
    IF ~g.refs.katamariBody THEN g
    ELSE LET pushed == applyInputForce(g.keys, g.katamariBody, N(MOVE_FORCE)).body
         IN  [g EXCEPT !.katamariBody =
                 capLinearVelocity(pushed, N(MAX_VELOCITY)).body]

\* the input and the caps of one tick
moveBody(g) ==
    IF ~g.refs.katamariBody THEN g
    ELSE LET pushed == applyInputForce(g.keys, g.katamariBody, N(MOVE_FORCE)).body
             capped == capLinearVelocity(pushed, N(MAX_VELOCITY)).body
         IN  [g EXCEPT !.katamariBody =
                 capAngularVelocity(capped, N(MAX_ANGULAR_VELOCITY)).body]

\* katamariMesh.position.copy(...), katamariMesh.quaternion.copy(...)
syncMesh(g) ==
    IF ~g.refs.katamariMesh \/ ~g.refs.katamariBody THEN g
    ELSE [g EXCEPT !.katamariMesh.position = g.katamariBody.position,
                   !.katamariMesh.quaternion = g.katamariBody.quaternion]

\* requestAnimationFrame(gameLoop), the result assigned to animationId: the
\* frame is pending from now on.  Identities are reused once a frame has fired
\* or was cancelled (the browser counts on; no code compares identities)
requestAnimationFrame(g) ==
    LET id == CHOOSE n \in 1..(Cardinality(g.pending) + 1) :
                 /\ n \notin g.pending
                 /\ \A m \in 1..(n - 1) : m \in g.pending
    IN  [g EXCEPT !.animationId = id, !.pending = @ \cup {id}]

\* cancelAnimationFrame(id)
cancelAnimationFrame(g, id) == [g EXCEPT !.pending = @ \ {id}]

\* checkCollisions is called (the body exists) and reads katamariMesh.value of
\* a parameter that was not handed: TypeError at line 99
checkCollisionsThrows(g) == g.refs.katamariBody /\ ~g.refs.meshParam

\* the visual sync reads katamariMesh.value of a parameter that was not
\* handed: TypeError at line 80
syncMeshThrows(g) == ~g.refs.meshParam

\* updateCameraFn() or renderFn() of a parameter that was not handed:
\* TypeError at line 86 or 87
callbackMissing(g) == ~g.refs.callbacks

\* the collision check runs before the physics step
gameLoop_checkfirst(g, o) ==
    LET requested == requestAnimationFrame(g)
        checked == IF requested.refs.katamariBody THEN checkCollisions(requested)
                   ELSE requested
        stepped == IF checked.refs.world THEN fixedStep(checked, o)
                   ELSE checked
    IN  syncMesh(moveBody(stepped))

\* useGameLoop.gameLoop(): one tick as a whole, o being what the physics step
\* does; a phase that throws ends the tick where it stands
gameLoop(g, o) ==
    LET requested == requestAnimationFrame(g)
        stepped == IF requested.refs.world THEN fixedStep(requested, o)
                   ELSE requested
        moved == moveBody(stepped)
        checked == IF moved.refs.katamariBody THEN checkCollisions(moved)
                   ELSE moved
    IN  IF checkCollisionsThrows(moved) THEN moved
        ELSE IF syncMeshThrows(checked) THEN checked
        ELSE syncMesh(checked)

\* start() calls gameLoop() whatever animationId holds
startRuns_always(g) == TRUE

\* the test of start(): animationId.value === null
startRuns(g) == g.animationId = Null

\* useGameLoop.start()
start(g, o) == IF startRuns(g) THEN gameLoop(g, o) ELSE g

\* stop() forgets the frame without cancelling it
stop_nocancel(g) ==
    IF g.animationId # Null THEN [g EXCEPT !.animationId = Null] ELSE g

\* useGameLoop.stop()
stop(g) ==
    IF g.animationId # Null
    THEN [cancelAnimationFrame(g, g.animationId) EXCEPT !.animationId = Null]
    ELSE g

\* the layouts of one spawn
Layouts == [1..SpawnCount -> ItemSpots]

\* the state after the setup of Game.vue: no ref holds an object
Init ==
    /\ keys = NoKeys
    /\ katamariBody = NewBody(VZero, One)
    /\ katamariMesh = NewMesh
    /\ katamariSize = One
    /\ collectibles = <<>>
    /\ meshes = <<>>
    /\ world = {}
    /\ call = NoCall
    /\ calls = 0
    /\ animationId = Null
    /\ collectedCount = 0
    /\ refs = NoRefs
    /\ spawned = 0
    /\ log = <<>>
    /\ pending = {}
    /\ running = <<>>

\* Game.vue onMounted: initPhysics, initThreeJS, spawnCollectibles(50), start()
Mount ==
    /\ ~refs.world
    /\ \E at \in Layouts, o \in StepOutcomes :
          LET placed == spawnCollectibles(initThreeJS(initPhysics(Game)),
                                          SpawnCount, at)
          IN  /\ Install(start(placed, o))
              /\ call' = [op |-> "onMounted", before |-> placed,
                          ticked |-> placed.animationId = Null]
    /\ UNCHANGED <<calls, running>>

\* the animation frame fires: one tick
Tick ==
    /\ \E f \in pending, o \in StepOutcomes :
          /\ Install(gameLoop([Game EXCEPT !.pending = @ \ {f}], o))
          /\ call' = [op |-> "gameLoop", before |-> Game, ticked |-> TRUE]
    /\ UNCHANGED <<calls, running>>

\* start() while no loop runs: the first tick runs at once
Start ==
    /\ animationId = Null
    /\ \E o \in StepOutcomes :
          /\ Install(start(Game, o))
          /\ call' = [op |-> "start", before |-> Game, ticked |-> TRUE]
    /\ UNCHANGED <<calls, running>>

\* stop() while a loop runs
Stop ==
    /\ animationId # Null
    /\ Install(stop(Game))
    /\ call' = [op |-> "stop", before |-> Game, ticked |-> FALSE]
    /\ UNCHANGED <<calls, running>>

\* the 'respawn-collectibles' event: handleRespawn
Respawn ==
    /\ refs.scene /\ refs.world
    /\ spawned + SpawnCount <= MaxSpawned
    /\ \E at \in Layouts :
          /\ Install(respawnCollectibles(Game, at))
          /\ call' = [op |-> "respawnCollectibles", before |-> Game,
                      ticked |-> FALSE]
    /\ UNCHANGED <<calls, running>>

Next == Mount \/ Tick \/ Start \/ Stop \/ Respawn

Spec == Init /\ [][Next]_vars

(***************************************************************************)
(* Properties of the game session.                                         *)
(***************************************************************************)
\* the last operation ran the body of one tick with every ref in place
Ticked ==
    /\ call.op \in {"onMounted", "gameLoop", "start"}
    /\ call.ticked
    /\ call.before.refs = AllRefs

\* item i of the array the tick started with was uncollected and within
\* contact range of the player when the collision check ran (the body stays
\* where the physics step of the tick put it)
InRange(i) ==
    LET item == call.before.collectibles[i]
    IN  /\ ~item.collected
        /\ SqrtLess(distanceSquared(katamariBody.position, item.body.position),
                    QAdd(call.before.katamariSize, item.radius))

\* the items in contact range at the collision check of the tick
Near == {i \in DOMAIN call.before.collectibles : InRange(i)}

\* item i is the item of the example: own radius 0.4, at distance 1.2
AtExampleDistance(i) ==
    LET item == call.before.collectibles[i]
    IN  /\ ~item.collected
        /\ item.radius = Q(2, 5)
        /\ distanceSquared(katamariBody.position, item.body.position) = Q(36, 25)

\* C11: a tick that starts with player radius r and exactly one uncollected
\* item within contact range ends with the radius r + 0.05, the item's
\* collectedAtSize r and the item's local scale 1/(r + 0.05); with r = 1 an
\* uncollected item of radius 0.4 at distance 1.2 is collected, and the
\* radius becomes 1.05 when it is the only one in range
C11_OneItemCycle ==
    Ticked =>
        LET r == call.before.katamariSize
            grownSize == QAdd(r, Q(1, 20))
        IN  /\ Cardinality(Near) = 1 =>
                  \A i \in Near :
                     /\ katamariSize = grownSize
                     /\ collectibles[i].collected
                     /\ collectibles[i].collectedAtSize = r
                     /\ meshes[collectibles[i].mesh].scale
                            = Uniform(QDiv(One, grownSize))
            /\ r = One =>
                  \A i \in DOMAIN call.before.collectibles :
                     AtExampleDistance(i) =>
                        /\ collectibles[i].collected
                        /\ Cardinality(Near) = 1 => katamariSize = Q(21, 20)

\* a tick with r = 1 collected the only item in range, the item of the example
C11_Witness ==
    /\ Ticked
    /\ call.before.katamariSize = One
    /\ Cardinality(Near) = 1
    /\ \E i \in Near : AtExampleDistance(i) /\ collectibles[i].collected
    /\ katamariSize = Q(21, 20)

\* C12: the player radius never gets smaller: no step of the session (tick,
\* collection, respawn, start, stop, mount) ends with a smaller katamariSize
\* than it started with
C12_SizeNeverShrinks == [][QLeq(katamariSize, katamariSize')]_vars

\* a respawn has just run in a session whose player had grown, and the size
\* is still the grown one
C12_Witness ==
    /\ call.op = "respawnCollectibles"
    /\ QLess(One, call.before.katamariSize)
    /\ katamariSize = call.before.katamariSize

\* the identities (of the body) of the records in the array cols
Ids(cols) == {cols[k].body.id : k \in DOMAIN cols}

\* C13: the collected flag is one-way.  A record enters the array uncollected
\* (after the spawn of onMounted, before its first tick, and after a respawn);
\* a record that was collected when an operation began and is still in the
\* array when it ends is still collected; and a record becomes collected
\* only in a tick that leaves the player's body within contact range of it
C13_CollectedOneWay ==
    call.op # "none" =>
        /\ call.op = "onMounted" =>
              \A k \in DOMAIN call.before.collectibles :
                 ~call.before.collectibles[k].collected
        /\ \A j \in DOMAIN collectibles :
              collectibles[j].body.id \notin Ids(call.before.collectibles)
                 => ~collectibles[j].collected
        /\ \A i \in DOMAIN call.before.collectibles, j \in DOMAIN collectibles :
              call.before.collectibles[i].body.id = collectibles[j].body.id =>
                 /\ call.before.collectibles[i].collected
                       => collectibles[j].collected
                 /\ (~call.before.collectibles[i].collected
                        /\ collectibles[j].collected)
                       => Ticked /\ InRange(i)

\* a tick started with an item already collected and another still free; it
\* collected the second and left the first collected
C13_Witness ==
    /\ Ticked
    /\ \E i, j \in DOMAIN call.before.collectibles :
          /\ call.before.collectibles[i].collected
          /\ collectibles[i].collected
          /\ ~call.before.collectibles[j].collected
          /\ collectibles[j].collected

\* what the detector returns for the records in the array now, for a player
\* of the given size at the body's position
Detected(size) ==
    LET ret == findCollidingCollectibles(katamariBody, collectibles, size).ret
    IN  {ret[k] : k \in DOMAIN ret}

\* C14: in every state, the body of every item that was ever attached is
\* absent from world.bodies, and no collected record of the array is returned
\* by the detector, neither for the current size nor for a size that puts
\* every item in range
C14_CollectedStaysOut ==
    /\ \A k \in DOMAIN log : log[k].item \notin world
    /\ \A i \in DOMAIN collectibles :
          collectibles[i].collected =>
             /\ collectibles[i].body.id \notin world
             /\ i \notin Detected(katamariSize)
             /\ i \notin Detected(N(30))

\* a tick ran with a collected item within contact distance of the player
\* and attached nothing
C14_Witness ==
    /\ Ticked
    /\ Len(log) = Len(call.before.log)
    /\ \E i \in DOMAIN collectibles :
          /\ call.before.collectibles[i].collected
          /\ SqrtLess(distanceSquared(katamariBody.position,
                                      collectibles[i].body.position),
                      QAdd(katamariSize, collectibles[i].radius))

\* C15: each collectible is collected at most once: no item appears twice in
\* the history of stickItem invocations, and onCollect has been invoked once
\* per invocation of stickItem
C15_CollectedAtMostOnce ==
    /\ \A a, b \in DOMAIN log : log[a].item = log[b].item => a = b
    /\ collectedCount = Len(log)

\* two items have been attached, and the last tick ran with an attached item
\* of the array still within contact distance without attaching it again
C15_Witness ==
    /\ Ticked
    /\ Len(log) = 2
    /\ call.before.log = log
    /\ collectedCount = 2
    /\ \E i \in DOMAIN collectibles :
          /\ collectibles[i].body.id = log[2].item
          /\ SqrtLess(distanceSquared(katamariBody.position,
                                      collectibles[i].body.position),
                      QAdd(katamariSize, collectibles[i].radius))

\* the number of contacts of the tick up to and including item i, in array
\* order (the order the detector returns them in)
Rank(i) == Cardinality({k \in Near : k <= i})

\* C16: collectedAtSize is absent exactly while the record is uncollected; a
\* tick that collects a record sets it to the player's radius at that
\* instant, that is the radius the tick started with plus 0.05 for every
\* contact of the tick handled before it; and a record that had it when an
\* operation began has the same value when the operation ends
C16_CollectedAtSizeSetOnce ==
    /\ \A j \in DOMAIN collectibles :
          collectibles[j].collected <=> collectibles[j].collectedAtSize # Undefined
    /\ call.op # "none" =>
          \A i \in DOMAIN call.before.collectibles, j \in DOMAIN collectibles :
             call.before.collectibles[i].body.id = collectibles[j].body.id =>
                IF call.before.collectibles[i].collectedAtSize # Undefined
                THEN collectibles[j].collectedAtSize
                        = call.before.collectibles[i].collectedAtSize
                ELSE collectibles[j].collected =>
                        collectibles[j].collectedAtSize
                           = QAdd(call.before.katamariSize,
                                  QMul(N(Rank(i) - 1), Q(1, 20)))

\* a tick collected an item at radius 1.05 while an item collected at radius
\* 1 kept its collectedAtSize
C16_Witness ==
    /\ Ticked
    /\ katamariSize = Q(11, 10)
    /\ \E i, j \in DOMAIN collectibles :
          /\ call.before.collectibles[i].collectedAtSize = One
          /\ collectibles[i].collectedAtSize = One
          /\ call.before.collectibles[j].collectedAtSize = Undefined
          /\ collectibles[j].collectedAtSize = Q(21, 20)

\* the records the last operation turned from uncollected to collected
NewlyCollected ==
    {i \in DOMAIN call.before.collectibles :
        /\ ~call.before.collectibles[i].collected
        /\ i \in DOMAIN collectibles
        /\ collectibles[i].body.id = call.before.collectibles[i].body.id
        /\ collectibles[i].collected}

\* C17: within a tick the physics step runs before the collision check, and
\* the contact set is resolved once, with the radius the check starts with:
\* the items a tick attaches are exactly the uncollected items within
\* distance (start radius + item radius) of the position the physics step of
\* that tick left the body at; an item that comes into range only through
\* the growth of the same tick is not attached in it
C17_StepThenOneContactSet ==
    Ticked =>
        /\ \E o \in StepOutcomes : katamariBody.position = o.position
        /\ NewlyCollected = Near

\* a tick whose physics step moved the body into range attached an item and
\* left unattached an item that is in range of the grown radius only
C17_Witness ==
    /\ Ticked
    /\ call.before.katamariBody.position # katamariBody.position
    /\ Near # {}
    /\ \E i \in DOMAIN collectibles :
          /\ ~collectibles[i].collected
          /\ i \notin Near
          /\ SqrtLess(distanceSquared(katamariBody.position,
                                      collectibles[i].body.position),
                      QAdd(katamariSize, collectibles[i].radius))

\* C18: a tick with n items in its contact set ends with the radius it
\* started with plus n * 0.05 and with n more onCollect notifications; it
\* invokes stickItem n times, for the contacts in array order, the k-th with
\* the radius grown k - 1 times (each attachment runs after the growth of
\* the contact before it), and every contact ends counter-scaled to the
\* final radius (the growth of its own callback ran after its attachment)
C18_AttachThenGrowPerContact ==
    Ticked =>
        LET n == Cardinality(Near)
            r == call.before.katamariSize
            base == Len(call.before.log)
        IN  /\ katamariSize = QAdd(r, QMul(N(n), Q(1, 20)))
            /\ collectedCount = call.before.collectedCount + n
            /\ Len(log) = base + n
            /\ SubSeq(log, 1, base) = call.before.log
            /\ \A i \in Near :
                  /\ log[base + Rank(i)]
                        = [item |-> call.before.collectibles[i].body.id,
                           size |-> QAdd(r, QMul(N(Rank(i) - 1), Q(1, 20)))]
                  /\ meshes[collectibles[i].mesh].scale
                        = Uniform(QDiv(One, katamariSize))

\* a tick had two items in its contact set: the radius grew by 0.1 and
\* onCollect was invoked twice
C18_Witness ==
    /\ Ticked
    /\ Cardinality(Near) = 2
    /\ katamariSize = QAdd(call.before.katamariSize, Q(1, 10))
    /\ collectedCount = call.before.collectedCount + 2

\* the meshes attached to the katamari mesh
Attached == {m \in DOMAIN meshes : meshes[m].parent = "katamari"}

\* C19: in every state every item mesh attached to the katamari mesh has the
\* apparent world size it was collected with: (katamari mesh scale) * (item
\* local scale) = 1 on every axis
C19_AttachedKeepWorldSize ==
    \A m \in Attached :
        VTimes(katamariMesh.scale, meshes[m].scale) = Uniform(One)

\* what holds instead: the attached meshes that still have a record in the
\* array keep their apparent world size
RecordedKeepWorldSize ==
    \A i \in DOMAIN collectibles :
        collectibles[i].mesh \in Attached =>
            VTimes(katamariMesh.scale, meshes[collectibles[i].mesh].scale)
                = Uniform(One)

\* C20: in every state between operations in which the player's mesh and
\* body exist, the mesh has the uniform scale katamariSize and the sphere of
\* the body has the radius katamariSize; the three are 1 when onMounted has
\* built the world and the scene
C20_ScaleRadiusSizeAgree ==
    /\ (refs.katamariMesh /\ refs.katamariBody) =>
          /\ katamariMesh.scale = Uniform(katamariSize)
          /\ katamariBody.radius = katamariSize
    /\ call.op = "onMounted" =>
          /\ call.before.katamariSize = One
          /\ call.before.katamariMesh.scale = Uniform(One)
          /\ call.before.katamariBody.radius = One

\* three collections and a respawn later the three are 1.15
C20_Witness ==
    /\ spawned = MaxSpawned
    /\ Len(log) = 3
    /\ katamariSize = Q(23, 20)
    /\ katamariMesh.scale = Uniform(Q(23, 20))
    /\ katamariBody.radius = Q(23, 20)

(***************************************************************************)
(* SpecLoop: useGameLoop on its own, one phase of gameLoop at a time.      *)
(* The composable is handed refs that hold their object or null, either    *)
(* all the parameters its signature declares or the ones Game.vue hands    *)
(* it (no mesh ref, no renderFn, no updateCameraFn).  The host calls       *)
(* start() and stop(), the browser fires the pending frames, and the       *)
(* functions handed as updateCameraFn and renderFn may return, throw or    *)
(* call stop().                                                            *)
(***************************************************************************)
\* the physics step is awaited: the tick hands control back before the input
Yields_await(phase) == phase = "input"

\* gameLoop and the functions it calls are synchronous: no phase hands
\* control back to the event loop before the tick has returned
Yields(phase) == FALSE

\* the event loop runs a callback only when no other callback is running
Dispatchable == \A k \in DOMAIN running : Yields(running[k].phase)

\* the next frame is requested as the last statement of a tick
scheduleNext_last(g, at) ==
    IF at = "end" THEN requestAnimationFrame(g) ELSE g

\* where gameLoop requests the next frame: in its first statement
scheduleNext(g, at) ==
    IF at = "begin" THEN requestAnimationFrame(g) ELSE g

\* what a function handed as updateCameraFn or renderFn may do
HostActs == {"returns", "throws", "stop"}

\* the refs and parameters of the loop: as declared, each ref holding its
\* object or null; or as Game.vue hands them, world and body set together
LoopRefs ==
    {[AllRefs EXCEPT !.world = w, !.katamariBody = b, !.katamariMesh = m] :
        w \in BOOLEAN, b \in BOOLEAN, m \in BOOLEAN}
    \cup
    {[AllRefs EXCEPT !.world = w, !.katamariBody = w, !.katamariMesh = m,
                     !.meshParam = FALSE, !.callbacks = FALSE] :
        w \in BOOLEAN, m \in BOOLEAN}

\* the items of the session: the first within contact range of NearSpot, the
\* others just outside it
LoopLayout ==
    [k \in 1..SpawnCount |->
        IF k = 1 THEN <<Q(24, 25), Q(1, 2), Zero>>
        ELSE <<Q(-5, 4), Q(1, 2), Zero>>]

\* the objects initPhysics, initThreeJS and spawnCollectibles build
Built ==
    spawnCollectibles(
        initThreeJS(initPhysics(
            [collectibles |-> <<>>, meshes |-> <<>>, world |-> {},
             katamariMesh |-> NewMesh, katamariBody |-> NewBody(VZero, One),
             katamariSize |-> One, keys |-> NoKeys, animationId |-> Null,
             collectedCount |-> 0, refs |-> AllRefs, spawned |-> 0,
             log |-> <<>>, pending |-> {}])),
        SpawnCount, LoopLayout)

\* the keys held during the session: none, or W (in a session with a world,
\* whose step clears the accumulated force)
LoopKeys == {NoKeys, [NoKeys EXCEPT !.w = TRUE]}

InitLoop ==
    /\ collectibles = Built.collectibles
    /\ meshes = Built.meshes
    /\ world = Built.world
    /\ katamariMesh = Built.katamariMesh
    /\ katamariBody = Built.katamariBody
    /\ katamariSize = One
    /\ keys \in LoopKeys
    /\ animationId = Null
    /\ collectedCount = 0
    /\ refs \in LoopRefs
    /\ (keys.w => refs.world)
    /\ spawned = Built.spawned
    /\ log = <<>>
    /\ pending = {}
    /\ running = <<>>
    /\ call = NoCall
    /\ calls = 0

\* a tick body that is about to run its first phase
NewTick == [phase |-> "physics", synced |-> 0, stopped |-> FALSE]

\* the tick body k moves on to the phase next
Advance(k, next) == running' = [running EXCEPT ![k].phase = next]

\* the tick body k has returned or thrown
Ended(k) == running' = SubSeq(running, 1, k - 1) \o SubSeq(running, k + 1, Len(running))

\* what a phase of tick body k leaves in call
PhaseCall(k, op, threw, ended) ==
    [op |-> op, threw |-> threw, ended |-> ended,
     synced |-> running[k].synced, stopped |-> running[k].stopped,
     before |-> Game]

\* the host calls start(): gameLoop() begins when no loop runs
CallStart ==
    /\ Dispatchable
    /\ IF startRuns(Game)
       THEN /\ Install(scheduleNext(Game, "begin"))
            /\ running' = Append(running, NewTick)
       ELSE /\ Install(Game)
            /\ UNCHANGED running
    /\ call' = [op |-> "start", ran |-> startRuns(Game), before |-> Game,
                previous |-> call.op]
    /\ UNCHANGED calls

\* the host calls stop()
CallStop ==
    /\ Dispatchable
    /\ Install(stop(Game))
    /\ call' = [op |-> "stop", before |-> Game]
    /\ UNCHANGED <<calls, running>>

\* the component unmounts: onBeforeUnmount(() => stop())
OnBeforeUnmount ==
    /\ Dispatchable
    /\ Install(stop(Game))
    /\ call' = [op |-> "onBeforeUnmount", before |-> Game]
    /\ UNCHANGED <<calls, running>>

\* a pending frame fires: gameLoop() begins
FrameFires ==
    /\ Dispatchable
    /\ \E f \in pending :
          Install(scheduleNext([Game EXCEPT !.pending = @ \ {f}], "begin"))
    /\ running' = Append(running, NewTick)
    /\ call' = [op |-> "gameLoop", previous |-> call.op,
                afterThrow |-> (call.op # "none" /\ call.op # "start"
                                /\ call.op # "stop" /\ call.op # "onBeforeUnmount"
                                /\ call.op # "gameLoop" /\ call.threw)]
    /\ UNCHANGED calls

\* lines 59-61: the physics step
StepPhysics ==
    \E k \in DOMAIN running :
        /\ running[k].phase = "physics"
        /\ IF refs.world
           THEN \E o \in StepOutcomes : Install(fixedStep(Game, o))
           ELSE Install(Game)
        /\ Advance(k, "input")
        /\ call' = PhaseCall(k, "fixedStep", FALSE, FALSE)
        /\ UNCHANGED calls

\* lines 64-71: the input force and the caps
ProcessInput ==
    \E k \in DOMAIN running :
        /\ running[k].phase = "input"
        /\ Install(moveBody(Game))
        /\ Advance(k, "collide")
        /\ call' = PhaseCall(k, "applyInputForce", FALSE, FALSE)
        /\ UNCHANGED calls

\* lines 74-76: the collision check
CheckCollisions ==
    \E k \in DOMAIN running :
        /\ running[k].phase = "collide"
        /\ IF checkCollisionsThrows(Game)
           THEN /\ Install(Game)
                /\ Ended(k)
                /\ call' = PhaseCall(k, "checkCollisions", TRUE, TRUE)
           ELSE /\ Install(IF refs.katamariBody THEN checkCollisions(Game)
                           ELSE Game)
                /\ Advance(k, "sync")
                /\ call' = PhaseCall(k, "checkCollisions", FALSE, FALSE)
        /\ UNCHANGED calls

\* lines 80-83: the visual sync
SyncVisuals ==
    \E k \in DOMAIN running :
        /\ running[k].phase = "sync"
        /\ IF syncMeshThrows(Game)
           THEN /\ Install(Game)
                /\ Ended(k)
                /\ call' = PhaseCall(k, "sync", TRUE, TRUE)
           ELSE /\ Install(syncMesh(Game))
                /\ running' = [running EXCEPT
                      ![k].phase = "camera",
                      ![k].synced = IF refs.katamariMesh /\ refs.katamariBody
                                    THEN @ + 1 ELSE @]
                /\ call' = [PhaseCall(k, "sync", FALSE, FALSE) EXCEPT
                               !.synced = running'[k].synced]
        /\ UNCHANGED calls

\* line 86: updateCameraFn()
UpdateCamera ==
    \E k \in DOMAIN running :
        /\ running[k].phase = "camera"
        /\ IF callbackMissing(Game)
           THEN /\ Install(Game)
                /\ Ended(k)
                /\ call' = PhaseCall(k, "updateCameraFn", TRUE, TRUE)
           ELSE \E act \in HostActs :
                   /\ Install(IF act = "stop" THEN stop(Game) ELSE Game)
                   /\ IF act = "throws" THEN Ended(k)
                      ELSE running' = [running EXCEPT
                              ![k].phase = "render",
                              ![k].stopped = @ \/ act = "stop"]
                   /\ call' = [PhaseCall(k, "updateCameraFn", act = "throws",
                                         act = "throws") EXCEPT
                                  !.stopped = @ \/ act = "stop"]
        /\ UNCHANGED calls

\* line 87: renderFn(), the last statement of the tick
Render ==
    \E k \in DOMAIN running :
        /\ running[k].phase = "render"
        /\ IF callbackMissing(Game)
           THEN /\ Install(Game)
                /\ call' = PhaseCall(k, "renderFn", TRUE, TRUE)
           ELSE \E act \in HostActs :
                   /\ Install(IF act = "stop" THEN stop(Game)
                              ELSE IF act = "returns" THEN scheduleNext(Game, "end")
                              ELSE Game)
                   /\ call' = [PhaseCall(k, "renderFn", act = "throws", TRUE)
                                  EXCEPT !.stopped = @ \/ act = "stop"]
        /\ Ended(k)
        /\ UNCHANGED calls

NextLoop ==
    \/ CallStart \/ CallStop \/ OnBeforeUnmount \/ FrameFires
    \/ StepPhysics \/ ProcessInput \/ CheckCollisions \/ SyncVisuals
    \/ UpdateCamera \/ Render

SpecLoop == InitLoop /\ [][NextLoop]_vars

(***************************************************************************)
(* The game loop: ticks, frames, start and stop.                           *)
(***************************************************************************)
\* the parameters as the signature of useGameLoop declares them
DeclaredWiring == refs.meshParam /\ refs.callbacks

\* the parameters as Game.vue hands them over
AssembledWiring == ~refs.meshParam /\ ~refs.callbacks

C22_EveryTickSyncsOnce ==
    (/\ AssembledWiring
     /\ refs.katamariBody /\ refs.katamariMesh
     /\ call.op \in {"checkCollisions", "sync", "updateCameraFn", "renderFn"}
     /\ call.ended)
        => /\ call.synced = 1
           /\ katamariMesh.position = katamariBody.position
           /\ katamariMesh.quaternion = katamariBody.quaternion

\* the phases of a tick from the collision check to the render
FromCollisionCheck == {"collide", "sync", "camera", "render"}

\* C23: from the collision check to the render of a tick in which the body
\* exists, its linear speed is at most MAX_VELOCITY and its angular speed at
\* most MAX_ANGULAR_VELOCITY
C23_VelocityBounded ==
    \A k \in DOMAIN running :
        (running[k].phase \in FromCollisionCheck /\ refs.katamariBody) =>
            /\ WithinCap(katamariBody.velocity, N(MAX_VELOCITY))
            /\ WithinCap(katamariBody.angularVelocity, N(MAX_ANGULAR_VELOCITY))

\* C23 witness: the step left the body at speed 13 and spin 10 with W held; at
\* render time it moves at exactly 10 and spins at exactly 5
C23_Witness ==
    /\ Len(running) = 1
    /\ running[1].phase = "render"
    /\ refs.katamariBody
    /\ keys.w
    /\ katamariBody.force # VZero
    /\ AtCap(katamariBody.velocity, N(MAX_VELOCITY))
    /\ AtCap(katamariBody.angularVelocity, N(MAX_ANGULAR_VELOCITY))

\* the phases of a tick as they are recorded in call
PhaseOps ==
    {"fixedStep", "applyInputForce", "checkCollisions", "sync",
     "updateCameraFn", "renderFn"}

\* C25: at most one frame callback is pending at any time; start() while a
\* frame is pending changes nothing and begins no tick; start() after stop()
\* begins exactly one loop: one tick body and one pending frame
C25_AtMostOneLoop ==
    /\ Cardinality(pending) <= 1
    /\ (call.op = "start" /\ call.before.pending # {} =>
            /\ ~call.ran
            /\ Game = call.before
            /\ running = <<>>)
    /\ (call.op = "start" /\ call.previous \in {"stop", "onBeforeUnmount"} =>
            /\ call.ran
            /\ call.before.pending = {}
            /\ running = <<NewTick>>
            /\ animationId # Null
            /\ pending = {animationId})

\* C25 witness: start() after a stop() that cancelled a pending frame has begun
\* one tick and left one frame pending
C25_Witness ==
    /\ call.op = "start"
    /\ call.previous = "stop"
    /\ call.ran
    /\ Cardinality(pending) = 1
    /\ Len(running) = 1

\* C26: once stop() has run (between ticks, inside a tick, on unmount) no
\* frame is pending and animationId is null, and a tick body begins with
\* animationId null only through start()
C26_StoppedMeansNoTick ==
    /\ [](/\ (animationId = Null => pending = {})
          /\ (call.op \in {"stop", "onBeforeUnmount"} => animationId = Null)
          /\ (call.op \in PhaseOps /\ call.stopped => animationId = Null)
          /\ \A k \in DOMAIN running :
                running[k].stopped => animationId = Null)
    /\ [][(Len(running') > Len(running) /\ animationId = Null)
              => call'.op = "start"]_vars

\* C26 witness: a tick during which updateCameraFn or renderFn called stop()
\* has ended, nothing is pending and no tick body is in progress
C26_Witness ==
    /\ call.op = "renderFn"
    /\ call.stopped
    /\ call.ended
    /\ call.before.animationId # Null
    /\ running = <<>>
    /\ pending = {}
    /\ animationId = Null

\* C27: when a phase of a tick has thrown (and stop() was not called during
\* that tick) the frame requested in its first statement is pending, nothing
\* keeps it from firing, and stop() would cancel it; the tick that follows a
\* throwing tick starts like any other
C27_LoopSurvivesThrow ==
    /\ (call.op \in PhaseOps /\ call.threw /\ ~call.stopped =>
            /\ animationId # Null
            /\ pending = {animationId}
            /\ Dispatchable
            /\ stop(Game).pending = {}
            /\ stop(Game).animationId = Null)
    /\ (call.op = "gameLoop" /\ call.afterThrow =>
            /\ running = <<NewTick>>
            /\ pending = {animationId})

\* C27 witness: the tick after a tick that threw has begun, with its own frame
\* pending
C27_Witness ==
    /\ call.op = "gameLoop"
    /\ call.afterThrow
    /\ running = <<NewTick>>
    /\ Cardinality(pending) = 1

\* a ref of the loop holds null: the world, the body, or the mesh of a loop
\* that was handed a mesh ref
AbsentRef ==
    ~refs.world \/ ~refs.katamariBody \/ (refs.meshParam /\ ~refs.katamariMesh)

\* C28: no step of a tick in which the world, the body or the mesh is null
\* changes the size, a collectible record, the world's body set, the collected
\* count or the list of attachments, and its collision check does not throw
C28_AbsentRefNoCollection ==
    [][AbsentRef =>
          /\ katamariSize' = katamariSize
          /\ collectibles' = collectibles
          /\ world' = world
          /\ collectedCount' = collectedCount
          /\ log' = log
          /\ meshes' = meshes
          /\ (call'.op = "checkCollisions" => ~call'.threw)]_vars

\* C28 witness: with the mesh null and an uncollected item within contact
\* range of the body, a tick has passed its collision check and reached the
\* render
C28_Witness ==
    /\ refs.world /\ refs.katamariBody /\ ~refs.katamariMesh
    /\ DeclaredWiring
    /\ Len(running) = 1
    /\ running[1].phase = "render"
    /\ Len(findCollidingCollectibles(katamariBody, collectibles,
                                     katamariSize).ret) > 0
    /\ collectedCount = 0

(***************************************************************************)
(* Clearing and respawning the collectibles.                               *)
(***************************************************************************)
\* the meshes of the records cols
MeshesOf(cols) == {cols[k].mesh : k \in DOMAIN cols}

\* C24: with scene and world initialised, clearCollectibles leaves no mesh of
\* the set it clears in the scene graph (attached to the katamari or not), no
\* body of that set in the world, and the array empty
C24_ClearRemovesEverything ==
    (refs.scene /\ refs.world) =>
        LET cleared == clearCollectibles(Game)
        IN  /\ cleared.collectibles = <<>>
            /\ Ids(collectibles) \cap cleared.world = {}
            /\ MeshesOf(collectibles) \cap DOMAIN cleared.meshes = {}
            /\ \A k \in DOMAIN cleared.katamariMesh.children :
                   cleared.katamariMesh.children[k] \notin MeshesOf(collectibles)

\* C29: after a respawn with scene and world initialised the set consists of
\* exactly SpawnCount items, all new, none collected, none with a
\* collectedAtSize, each of radius 0.4 with its body in the world; the size and
\* the collected count are those of before the respawn
C29_RespawnGivesFreshSet ==
    (call.op = "respawnCollectibles"
        /\ call.before.refs.scene /\ call.before.refs.world) =>
        /\ Len(collectibles) = SpawnCount
        /\ Ids(collectibles) \cap Ids(call.before.collectibles) = {}
        /\ Cardinality(Ids(collectibles)) = SpawnCount
        /\ \A k \in DOMAIN collectibles :
              /\ ~collectibles[k].collected
              /\ collectibles[k].collectedAtSize = Undefined
              /\ collectibles[k].radius = ITEM_RADIUS
              /\ collectibles[k].body.id \in world
        /\ katamariSize = call.before.katamariSize
        /\ collectedCount = call.before.collectedCount

\* C29 witness: a respawn after an item had been collected: the size stays
\* above 1 and the count above 0 while every item is new and free
C29_Witness ==
    /\ call.op = "respawnCollectibles"
    /\ \E k \in DOMAIN call.before.collectibles :
           call.before.collectibles[k].collected
    /\ collectedCount > 0
    /\ QLess(One, katamariSize)
    /\ Len(collectibles) = SpawnCount
    /\ \A k \in DOMAIN collectibles : ~collectibles[k].collected

(***************************************************************************)
(* SpecKeys: useKeyboardInput under every sequence of keydown and keyup    *)
(* events of a set of keys: the tracked letters in both cases, the arrows, *)
(* R, and keys the game does not use.                                      *)
(***************************************************************************)
\* the values of KeyboardEvent.key the events carry
KeyNames ==
    {"w", "W", "a", "A", "s", "S", "d", "D", "r", "R",
     "ArrowUp", "ArrowDown", "ArrowLeft", "ArrowRight",
     "x", "X", "Shift", " "}

\* String.prototype.toLowerCase on the key names
toLowerCase(k) ==
    CASE k = "W" -> "w"
      [] k = "A" -> "a"
      [] k = "S" -> "s"
      [] k = "D" -> "d"
      [] k = "R" -> "r"
      [] k = "X" -> "x"
      [] k = "ArrowUp" -> "arrowup"
      [] k = "ArrowDown" -> "arrowdown"
      [] k = "ArrowLeft" -> "arrowleft"
      [] k = "ArrowRight" -> "arrowright"
      [] k = "Shift" -> "shift"
      [] OTHER -> k

\* key in keys.value
Tracked(ks, key) == key \in DOMAIN ks

\* a plausible slip: the key is compared as the event carries it
onKeyDown_nolower(ks, eKey) ==
    LET key == eKey
        tracked == IF Tracked(ks, key) THEN [ks EXCEPT ![key] = TRUE] ELSE ks
    IN  IF key = "r" THEN [keys |-> tracked, dispatched |-> 1]
        ELSE IF key = "arrowup"
             THEN [keys |-> [tracked EXCEPT !.w = TRUE], dispatched |-> 0]
        ELSE IF key = "arrowdown"
             THEN [keys |-> [tracked EXCEPT !.s = TRUE], dispatched |-> 0]
        ELSE IF key = "arrowleft"
             THEN [keys |-> [tracked EXCEPT !.a = TRUE], dispatched |-> 0]
        ELSE IF key = "arrowright"
             THEN [keys |-> [tracked EXCEPT !.d = TRUE], dispatched |-> 0]
        ELSE [keys |-> tracked, dispatched |-> 0]

\* onKeyDown(e): the KeyState after the handler and the number of
\* respawn-collectibles events it dispatched on window
onKeyDown(ks, eKey) ==
    LET key == toLowerCase(eKey)
        tracked == IF Tracked(ks, key) THEN [ks EXCEPT ![key] = TRUE] ELSE ks
    IN  IF key = "r" THEN [keys |-> tracked, dispatched |-> 1]
        ELSE IF key = "arrowup"
             THEN [keys |-> [tracked EXCEPT !.w = TRUE], dispatched |-> 0]
        ELSE IF key = "arrowdown"
             THEN [keys |-> [tracked EXCEPT !.s = TRUE], dispatched |-> 0]
        ELSE IF key = "arrowleft"
             THEN [keys |-> [tracked EXCEPT !.a = TRUE], dispatched |-> 0]
        ELSE IF key = "arrowright"
             THEN [keys |-> [tracked EXCEPT !.d = TRUE], dispatched |-> 0]
        ELSE [keys |-> tracked, dispatched |-> 0]

\* onKeyUp(e)
onKeyUp(ks, eKey) ==
    LET key == toLowerCase(eKey)
    IN  IF Tracked(ks, key) THEN [keys |-> [ks EXCEPT ![key] = FALSE], dispatched |-> 0]
        ELSE IF key = "arrowup"
             THEN [keys |-> [ks EXCEPT !.w = FALSE], dispatched |-> 0]
        ELSE IF key = "arrowdown"
             THEN [keys |-> [ks EXCEPT !.s = FALSE], dispatched |-> 0]
        ELSE IF key = "arrowleft"
             THEN [keys |-> [ks EXCEPT !.a = FALSE], dispatched |-> 0]
        ELSE IF key = "arrowright"
             THEN [keys |-> [ks EXCEPT !.d = FALSE], dispatched |-> 0]
        ELSE [keys |-> ks, dispatched |-> 0]

\* the physical movement key an event is about: the letter key whatever the
\* case its e.key comes in, or the arrow key; "none" for any other key
Physical(k) ==
    CASE k \in {"w", "W"} -> "KeyW"
      [] k \in {"a", "A"} -> "KeyA"
      [] k \in {"s", "S"} -> "KeyS"
      [] k \in {"d", "D"} -> "KeyD"
      [] k \in {"ArrowUp", "ArrowDown", "ArrowLeft", "ArrowRight"} -> k
      [] OTHER -> "none"

\* the movement keys held after an event of key k, given those held before
HeldAfter(held, k, down) ==
    IF Physical(k) = "none" THEN held
    ELSE IF down THEN held \cup {Physical(k)}
    ELSE held \ {Physical(k)}

\* a keyup of key k releases a key that was held (or a key that is not a
\* movement key): the browser saw its keydown
Releases(held, k) == Physical(k) = "none" \/ Physical(k) \in held

InitKeys ==
    /\ keys = NoKeys
    /\ katamariBody = NewBody(VZero, One)
    /\ EmptyScene
    /\ call = [op |-> "none", held |-> {}, paired |-> TRUE]
    /\ calls = 0
    /\ NoLoop

\* window receives a keydown event
KeyDown ==
    /\ \E k \in KeyNames :
          LET r == onKeyDown(keys, k)
          IN  /\ keys' = r.keys
              /\ call' = [op |-> "keydown", key |-> k, before |-> keys,
                          dispatched |-> r.dispatched,
                          held |-> HeldAfter(call.held, k, TRUE),
                          paired |-> call.paired]
    /\ UNCHANGED <<katamariBody, calls, sceneVars, loopVars>>

\* window receives a keyup event
KeyUp ==
    /\ \E k \in KeyNames :
          LET r == onKeyUp(keys, k)
          IN  /\ keys' = r.keys
              /\ call' = [op |-> "keyup", key |-> k, before |-> keys,
                          dispatched |-> r.dispatched,
                          held |-> HeldAfter(call.held, k, FALSE),
                          paired |-> call.paired /\ Releases(call.held, k)]
    /\ UNCHANGED <<katamariBody, calls, sceneVars, loopVars>>

NextKeys == KeyDown \/ KeyUp

SpecKeys == InitKeys /\ [][NextKeys]_vars

\* the keys of each direction
UpKeys == {"w", "W", "ArrowUp"}
LeftKeys == {"a", "A", "ArrowLeft"}
DownKeys == {"s", "S", "ArrowDown"}
RightKeys == {"d", "D", "ArrowRight"}
RespawnKeys == {"r", "R"}

\* the KeyState before, with the flag of the direction of key k set to v and
\* nothing else changed; before itself for a key of no direction
WithFlag(before, k, v) ==
    IF k \in UpKeys THEN [before EXCEPT !.w = v]
    ELSE IF k \in LeftKeys THEN [before EXCEPT !.a = v]
    ELSE IF k \in DownKeys THEN [before EXCEPT !.s = v]
    ELSE IF k \in RightKeys THEN [before EXCEPT !.d = v]
    ELSE before

\* C30: a keydown of W/A/S/D in either case or of the matching arrow sets its
\* flag and leaves the others; a keyup of the same key clears it; a keydown of
\* R dispatches exactly one respawn-collectibles event and changes no flag;
\* nothing else dispatches an event or changes a flag
C30_KeyEventMapping ==
    /\ (call.op = "keydown" =>
            /\ keys = WithFlag(call.before, call.key, TRUE)
            /\ call.dispatched = IF call.key \in RespawnKeys THEN 1 ELSE 0)
    /\ (call.op = "keyup" =>
            /\ keys = WithFlag(call.before, call.key, FALSE)
            /\ call.dispatched = 0)

\* C30 witness: with W held, a keydown of capital A has set a and left w, s
\* and d as they were
C30_Witness ==
    /\ call.op = "keydown"
    /\ call.key = "A"
    /\ call.before = [NoKeys EXCEPT !.w = TRUE]
    /\ keys = [NoKeys EXCEPT !.w = TRUE, !.a = TRUE]

\* one of the two keys of a direction is held
AnyHeld(letter, arrow) == call.held \cap {letter, arrow} # {}

\* C31: after any sequence of keydown and keyup events (every keyup that of a
\* key that was down) each movement flag is true exactly when the letter key
\* or the arrow key mapped to it is held; in particular a flag stays set when
\* one of its two keys is released while the other is still held
C31_FlagsReflectHeldKeys ==
    call.paired =>
    /\ keys.w = AnyHeld("KeyW", "ArrowUp")
    /\ keys.a = AnyHeld("KeyA", "ArrowLeft")
    /\ keys.s = AnyHeld("KeyS", "ArrowDown")
    /\ keys.d = AnyHeld("KeyD", "ArrowRight")

(***************************************************************************)
(* Size, score and the position of collected items.                        *)
(***************************************************************************)
\* C32: in every state of the session the size is 1 + 0.05 * collectedCount
\* and collectedCount is the number of stickItem invocations so far
C32_SizeFollowsCount ==
    /\ katamariSize = QAdd(One, QMul(GROW_AMOUNT, N(collectedCount)))
    /\ collectedCount = Len(log)

\* C32 witness: one item collected before a respawn and two of the new items
\* after it: count 3 and size 1.15 with two collected records in the array
C32_Witness ==
    /\ spawned = MaxSpawned
    /\ collectedCount = 3
    /\ katamariSize = Q(23, 20)
    /\ Cardinality({k \in DOMAIN collectibles : collectibles[k].collected}) = 2

\* the items the collision check of the last step attached
AttachedByCheck ==
    {k \in DOMAIN collectibles :
        /\ ~call.before.collectibles[k].collected
        /\ collectibles[k].collected}

\* C33: every item a tick attaches is, after the attach-then-grow of its
\* collision check, at the world position it had before it was attached
C33_CollectedKeepsWorldPosition ==
    (call.op = "checkCollisions" /\ ~call.threw) =>
        \A k \in AttachedByCheck :
            getWorldPosition(katamariMesh, meshes, collectibles[k].mesh)
                = getWorldPosition(call.before.katamariMesh, call.before.meshes,
                                   call.before.collectibles[k].mesh)

\* the uncollected items that overlapped the player when the collision check
\* of the last step began: distance < size + radius
OverlappingAtCheck ==
    {k \in DOMAIN call.before.collectibles :
        LET item == call.before.collectibles[k]
        IN  /\ ~item.collected
            /\ SqrtLess(distanceSquared(call.before.katamariBody.position,
                                        item.body.position),
                        QAdd(call.before.katamariSize, item.radius))}

\* the loop holds a world, a body and a mesh
AllPresent ==
    refs.world /\ refs.katamariBody /\ refs.katamariMesh /\ refs.meshParam

\* the place of a phase in the body of gameLoop
PhaseRank(phase) ==
    CASE phase = "physics" -> 1
      [] phase = "input" -> 2
      [] phase = "collide" -> 3
      [] phase = "sync" -> 4
      [] phase = "camera" -> 5
      [] phase = "render" -> 6

\* C34: with world, body and mesh present, every uncollected item that
\* overlaps the player at the collision check of a tick is collected by that
\* check, and no item loses its flag afterwards; and a tick body terminates:
\* every step taken while it is in progress ends it or moves it to a later
\* phase, the contact set being processed within its collision check
C34_CollectionIsPrompt ==
    /\ []((call.op = "checkCollisions" /\ AllPresent) =>
            /\ ~call.threw
            /\ \A k \in OverlappingAtCheck : collectibles[k].collected)
    /\ [][\A k \in DOMAIN collectibles :
             collectibles[k].collected => collectibles'[k].collected]_vars
    /\ [][running # <<>> =>
             \/ running' = <<>>
             \/ /\ Len(running') = 1
                /\ PhaseRank(running'[1].phase) > PhaseRank(running[1].phase)]_vars

\* C34 witness: the collision check of a tick found the item at distance 1.2
\* of a player of size 1 uncollected and left it collected
C34_Witness ==
    /\ call.op = "checkCollisions"
    /\ AllPresent
    /\ OverlappingAtCheck = {1}
    /\ call.before.katamariSize = One
    /\ collectibles[1].collected
    /\ collectedCount = 1

====
